---- MODULE Spec2Model ----
(***************************************************************************)
(* Verification model of the pinpad journal analyzer core.                 *)
(*                                                                         *)
(* Part 1: TransactionSegmenter                                            *)
(*   (src/src/pinpad_analyzer/segmentation/transaction_segmenter.py).      *)
(* Part 2: RepeatExpander                                                  *)
(*   (src/src/pinpad_analyzer/ingestion/repeat_expander.py).               *)
(* Part 3: SCATStateMachine                                                *)
(*   (src/src/pinpad_analyzer/segmentation/state_machine.py).              *)
(* Part 4: ErrorCascadeDetector                                            *)
(*   (src/src/pinpad_analyzer/segmentation/error_cascade.py).              *)
(* Part 5: HealthSegmenter                                                 *)
(*   (src/src/pinpad_analyzer/segmentation/health_segmenter.py).           *)
(* Part 6: RuleEngine (src/src/pinpad_analyzer/ml/rules.py).               *)
(* Part 7: MetadataExtractor                                               *)
(*   (src/src/pinpad_analyzer/ingestion/metadata_extractor.py).            *)
(* Part 8: LogParser (src/src/pinpad_analyzer/ingestion/parser.py).        *)
(* Part 9: two pipeline instances, as _ingest_file builds them             *)
(*   (src/src/pinpad_analyzer/cli/commands/ingest.py).                     *)
(*                                                                         *)
(* A log message is represented by what the segmenter's regular            *)
(* expressions find in it: one record field per pattern, holding the       *)
(* pattern's first capture, or the "no match" value of that field.         *)
(***************************************************************************)
EXTENDS Integers, Sequences, FiniteSets, TLC

VARIABLES state, current, entries_buffer, emitted, entry, nread, pc,
          scen, ackSeen, started

txnVars == <<state, current, entries_buffer, emitted, entry, nread, pc,
             scen, ackSeen, started>>

\* RepeatExpander: _buffer, the entries yielded for the last item, the last
\* item consumed, the number of items and of directives consumed, the entry
\* yielded last of all, and the original entries consumed so far.
VARIABLES buffer, yielded, item, xread, ndir, lastOut, originals

expVars == <<buffer, yielded, item, xread, ndir, lastOut, originals>>

\* SCATStateMachine: its four attributes, the last entry and the number of
\* entries consumed, the progress through the dedup scenario, and the
\* result of the last get_dead_periods call (NotCalled once an entry has
\* come after it).
VARIABLES current_state, alive_status, state_history, alive_history,
          scat_entry, sread, sscen, dead_periods

scatVars == <<current_state, alive_status, state_history, alive_history,
              scat_entry, sread, sscen, dead_periods>>

\* ErrorCascadeDetector: _current, _last_error_time, the cascades yielded so
\* far, the last entry and the number of entries consumed, whether the
\* stream is exhausted, and the progress through the splitting scenario.
VARIABLES cascade_current, last_error_time, cascades, cascade_entry, cread,
          cpc, cscen, cerrors

cascadeVars == <<cascade_current, last_error_time, cascades, cascade_entry,
                 cread, cpc, cscen, cerrors>>

\* HealthSegmenter: the local `current` of process_entries, the records
\* yielded so far, the last entry and the number of entries consumed, and
\* whether the stream is exhausted.
VARIABLES health_current, health_checks, health_entry, hread, hpc

healthVars == <<health_current, health_checks, health_entry, hread, hpc>>

\* RuleEngine and the tables it queries: the alive_history pairs handed to
\* SCATTimelineRepo.insert_batch, the rows of scat_timeline, the window and
\* the result of the last analyze_file call, and the position of the run.
VARIABLES alive_entries, scat_timeline, window, issues, rpc

\* The error_cascade events of the file (events joined with error_cascades).
VARIABLES error_cascades

\* The rows of log_entries the rule engine can select, in line order.
VARIABLES log_entries

\* The transaction events of the file (events joined with transactions), in
\* the order the segmenter yielded them, and the size of the run of approved
\* transactions the file began with.
VARIABLES transactions, approved_run

\* The health_check events of the file (events joined with health_checks),
\* in the order the segmenter yielded them.
VARIABLES health_rows

ruleVars == <<alive_entries, scat_timeline, window, issues, rpc,
              error_cascades, log_entries, transactions,
              approved_run, health_rows>>

\* MetadataExtractor and the identity merge of _ingest_file: the raw lines of
\* the file read so far, the max_entries of the two extractors, the
\* FileIdentity of extract_from_file with its lines_scanned, the FileIdentity
\* of the second pass (extract) with its count, and the position of the run.
VARIABLES raw_lines, max_entries, identity, lines_scanned, identity2,
          scan_count, ipc

identityVars == <<raw_lines, max_entries, identity, lines_scanned, identity2,
                  scan_count, ipc>>

\* LogParser under FileReader.parse_lines: the raw line handed to the last
\* parse_line call, what that call did, the items parse_lines has yielded,
\* the number of raw lines read, and the position of the generator.
VARIABLES praw, presult, parsed, plines, ppc

parserVars == <<praw, presult, parsed, plines, ppc>>

\* Two pipeline instances: the state of each, and the parsed items of its
\* file it has consumed.
VARIABLES pipelines, files

pipelineVars == <<pipelines, files>>

vars == <<txnVars, expVars, scatVars, cascadeVars, healthVars, ruleVars,
          identityVars, parserVars, pipelineVars>>

\* What the steps of one component leave alone.
notTxnVars == <<expVars, scatVars, cascadeVars, healthVars, ruleVars,
  identityVars, parserVars, pipelineVars>>
notExpVars == <<txnVars, scatVars, cascadeVars, healthVars, ruleVars,
  identityVars, parserVars, pipelineVars>>
notScatVars == <<txnVars, expVars, cascadeVars, healthVars, ruleVars,
  identityVars, parserVars, pipelineVars>>
notCascadeVars == <<txnVars, expVars, scatVars, healthVars, ruleVars,
  identityVars, parserVars, pipelineVars>>
notHealthVars == <<txnVars, expVars, scatVars, cascadeVars, ruleVars,
  identityVars, parserVars, pipelineVars>>
notRuleVars == <<txnVars, expVars, scatVars, cascadeVars, healthVars,
  identityVars, parserVars, pipelineVars>>
notIdentityVars == <<txnVars, expVars, scatVars, cascadeVars, healthVars,
  ruleVars, parserVars, pipelineVars>>
notParserVars == <<txnVars, expVars, scatVars, cascadeVars, healthVars,
  ruleVars, identityVars, pipelineVars>>
notPipelineVars == <<txnVars, expVars, scatVars, cascadeVars, healthVars,
  ruleVars, identityVars, parserVars>>

(***************************************************************************)
(* Bounds                                                                  *)
(***************************************************************************)
\* Longest entry stream fed to process_entries.
MaxEntries == 4

(***************************************************************************)
(* Values                                                                  *)
(***************************************************************************)
\* Python None for Optional[TransactionData] / Optional[LogEntry].
None == [none |-> TRUE]

\* Python None for Optional[datetime].
NoTime == -1

\* A capture that may carry surrounding whitespace: text is what .strip()
\* leaves, pad tells whether there was whitespace to strip.
NoText == [text |-> "", pad |-> FALSE]

Txt(s) == [text |-> s, pad |-> FALSE]

Padded(s) == [text |-> s, pad |-> TRUE]

\* str.strip()
Strip(p) == p.text

\* int(val) of a captured digit string; captures are kept as the number the
\* digits denote, NoInt when the pattern does not match.
NoInt == -1

\* TransactionState
IDLE == "idle"

IN_PROGRESS == "in_progress"

ONLINE_PENDING == "online_pending"

COMPLETING == "completing"

\* TransactionData() with its dataclass defaults.
TransactionData ==
  [ start_line |-> 0, end_line |-> 0, start_time |-> NoTime,
    end_time |-> NoTime, entry_count |-> 0,
    sequence_number |-> "", card_type |-> "", entry_method |-> "",
    pan_last4 |-> "", aid |-> "", app_label |-> "", tac_sequence |-> "",
    cvm_result |-> "",
    response_code |-> "", host_response_code |-> "",
    authorization_number |-> "",
    amount_cents |-> 0, cashback_cents |-> 0,
    host_url |-> "", host_latency_ms |-> 0,
    se_send_time |-> NoTime, se_recv_time |-> NoTime,
    tvr |-> "", is_quickchip |-> FALSE, is_fallback |-> FALSE,
    serial_error_count |-> 0, state_sequence |-> <<>> ]

\* TransactionData.is_approved
is_approved(txn) == txn.response_code = "AA"

\* CARD_TYPE_MAP.get(val, val)
CARD_TYPE_MAP(val) ==
  CASE val = "DB" -> "Debit"
    [] val \in {"VS", "MC", "AX", "DS"} -> "Credit"
    [] val = "EF" -> "EBT Food"
    [] val = "EC" -> "EBT Cash"
    [] OTHER -> val

(***************************************************************************)
(* Messages: what each pattern of PATTERNS, SE_SEND_FIELD_PATTERNS and     *)
(* SE_RECV_FIELD_PATTERNS captures from the text.                          *)
(***************************************************************************)
\* A message none of the patterns matches.
NoMsg ==
  [ begin_order |-> FALSE, tender_type_set |-> FALSE, end_order |-> FALSE,
    reset_clear_end |-> FALSE, send_ack_fail |-> FALSE,
    tender_type |-> <<>>, card_entry |-> "", aid |-> "",
    app_label |-> NoText, cvm_result |-> "", tvr |-> "",
    cmd_sequence |-> NoText, quickchip |-> "", auth_number |-> "",
    response_code |-> "", host_response |-> "", scat_state |-> "",
    se_send |-> <<>>, se_recv |-> <<>>,
    send_amount |-> NoInt, send_cashback |-> NoInt,
    send_card_type_code |-> "", send_pan_last4 |-> "",
    send_entry_method |-> <<>>, send_aid_field |-> "",
    send_app_label_field |-> NoText, send_tvr_field |-> "",
    send_cvm_field |-> "", send_tac_seq |-> NoText,
    recv_response_code_host |-> "", recv_auth_number |-> "",
    recv_host_response |-> "" ]

\* LogEntry(line_number, timestamp, category, message)
LogEntry(line, ts, cat, msg) ==
  [line_number |-> line, timestamp |-> ts, category |-> cat, message |-> msg]

(***************************************************************************)
(* Pattern helpers                                                         *)
(***************************************************************************)
\* Mutant of EntryMethodCapture: E? and C? never give a character back.
EntryMethodCaptureNoBacktrack(w) ==
  LET e == IF Len(w) >= 1 /\ w[1] = "E" THEN 1 ELSE 0
      c == IF Len(w) >= e + 1 /\ w[e + 1] = "C" THEN 1 ELSE 0
  IN  IF Len(w) >= e + c + 1 THEN w[e + c + 1] ELSE ""

\* SE_SEND_FIELD_PATTERNS["entry_method"] = BfE?C?(\w), applied to the word
\* characters w that follow "Bf": E? and C? are greedy and give a character
\* back only when (\w) would otherwise have nothing left to capture.
EntryMethodCapture(w) ==
  LET e == IF Len(w) >= 1 /\ w[1] = "E" THEN 1 ELSE 0
      c == IF Len(w) >= e + 1 /\ w[e + 1] = "C" THEN 1 ELSE 0
  IN  IF Len(w) >= e + c + 1 THEN w[e + c + 1]
      ELSE IF Len(w) >= e + 1 THEN w[e + 1]
      ELSE IF Len(w) >= 1 THEN w[1]
      ELSE ""

\* `sub in tender_name` for a tender name held as its sequence of words.
Contains(name, sub) ==
  \E i \in 1..(Len(name) - Len(sub) + 1) :
     \A j \in 1..Len(sub) : name[i + j - 1] = sub[j]

\* float(m.group(1)) * 1000 for an elapsed time written "<whole>.<mmm>".
LatencyMs(secs) == secs[1] * 1000 + secs[2]

(***************************************************************************)
(* TransactionSegmenter                                                    *)
(***************************************************************************)
\* _start_new: the fresh record (state and buffer are set by the caller's
\* action below).
StartNew(e) ==
  [TransactionData EXCEPT !.start_line = e.line_number,
                          !.start_time = e.timestamp]

\* Mutant of FinalizeCurrent: the end time is left as it was;
\* only the end line is written.
FinalizeCurrentLineOnly(txn, e) ==
  IF txn = None THEN txn
  ELSE IF e # None THEN [txn EXCEPT !.end_line = e.line_number]
  ELSE txn

\* _finalize_current
FinalizeCurrent(txn, e) ==
  IF txn = None THEN txn
  ELSE IF e # None
       THEN [txn EXCEPT !.end_line = e.line_number, !.end_time = e.timestamp]
       ELSE txn

\* _extract_fields: the TenderType name branch.
TenderCardType(txn, msg) ==
  LET name == msg.tender_type IN
  IF name = <<>> THEN txn
  ELSE IF Contains(name, <<"Debit">>) THEN [txn EXCEPT !.card_type = "Debit"]
  ELSE IF Contains(name, <<"Credit">>) THEN [txn EXCEPT !.card_type = "Credit"]
  ELSE IF Contains(name, <<"EBT", "Food">>) \/ Contains(name, <<"Food", "Stamp">>)
       THEN [txn EXCEPT !.card_type = "EBT Food"]
  ELSE IF Contains(name, <<"EBT", "Cash">>) THEN [txn EXCEPT !.card_type = "EBT Cash"]
  ELSE txn

\* Mutant of CvmResult: the pre-PIN value is not skipped.
CvmResultNoSkip(txn, msg) ==
  IF msg.cvm_result # ""
  THEN [txn EXCEPT !.cvm_result = msg.cvm_result]
  ELSE txn

\* _extract_fields: the CVMR branch.
CvmResult(txn, msg) ==
  IF msg.cvm_result # "" /\ msg.cvm_result # "3F0000"
  THEN [txn EXCEPT !.cvm_result = msg.cvm_result]
  ELSE txn

\* _extract_fields
ExtractFields(txn, e) ==
  LET msg == e.message
      t1 == IF msg.card_entry # "" /\ e.category \in {"DLL-EX", "TCP/IP"}
            THEN [txn EXCEPT !.entry_method = msg.card_entry] ELSE txn
      t2 == IF msg.aid # "" THEN [t1 EXCEPT !.aid = msg.aid] ELSE t1
      t3 == IF msg.app_label # NoText
            THEN [t2 EXCEPT !.app_label = Strip(msg.app_label)] ELSE t2
      t4 == CvmResult(t3, msg)
      t5 == IF msg.tvr # "" THEN [t4 EXCEPT !.tvr = msg.tvr] ELSE t4
      t6 == IF msg.cmd_sequence # NoText
            THEN [t5 EXCEPT !.tac_sequence = Strip(msg.cmd_sequence)] ELSE t5
      t7 == IF msg.quickchip # ""
            THEN [t6 EXCEPT !.is_quickchip = (msg.quickchip = "Y")] ELSE t6
      t8 == IF msg.auth_number # "" /\ e.category = "TCP/IP"
            THEN [t7 EXCEPT !.authorization_number = msg.auth_number] ELSE t7
  IN  TenderCardType(t8, msg)

\* _extract_se_send_fields: the cvm_field branch.
SendCvmField(txn, msg) ==
  IF msg.send_cvm_field # "" /\ msg.send_cvm_field # "3F0000"
  THEN [txn EXCEPT !.cvm_result = msg.send_cvm_field]
  ELSE txn

\* _extract_se_send_fields: the card_type_code branch.
SendCardType(txn, msg) ==
  IF msg.send_card_type_code # "" /\ txn.card_type = ""
  THEN [txn EXCEPT !.card_type = CARD_TYPE_MAP(msg.send_card_type_code)]
  ELSE txn

\* _extract_se_send_fields, in the order of SE_SEND_FIELD_PATTERNS.
ExtractSeSendFields(txn, msg) ==
  LET t1 == IF msg.send_amount # NoInt /\ txn.amount_cents = 0
            THEN [txn EXCEPT !.amount_cents = msg.send_amount] ELSE txn
      t2 == IF msg.send_cashback # NoInt
            THEN [t1 EXCEPT !.cashback_cents = msg.send_cashback] ELSE t1
      t3 == SendCardType(t2, msg)
      t4 == IF msg.send_pan_last4 # ""
            THEN [t3 EXCEPT !.pan_last4 = msg.send_pan_last4] ELSE t3
      t5 == IF msg.send_entry_method # <<>> /\ t4.entry_method = ""
            THEN [t4 EXCEPT !.entry_method = EntryMethodCapture(msg.send_entry_method)]
            ELSE t4
      t6 == IF msg.send_aid_field # "" /\ t5.aid = ""
            THEN [t5 EXCEPT !.aid = msg.send_aid_field] ELSE t5
      t7 == IF msg.send_app_label_field # NoText /\ t6.app_label = ""
            THEN [t6 EXCEPT !.app_label = Strip(msg.send_app_label_field)] ELSE t6
      t8 == IF msg.send_tvr_field # "" /\ t7.tvr = ""
            THEN [t7 EXCEPT !.tvr = msg.send_tvr_field] ELSE t7
      t9 == SendCvmField(t8, msg)
  IN  IF msg.send_tac_seq # NoText /\ t9.tac_sequence = ""
      THEN [t9 EXCEPT !.tac_sequence = Strip(msg.send_tac_seq)] ELSE t9

\* Mutant of HostCodeOutcome: every code other than 00 declines.
HostCodeOutcomeElseDeclined(txn, val) ==
  IF val = "00" THEN [txn EXCEPT !.response_code = "AA"]
  ELSE [txn EXCEPT !.response_code = "DD"]

\* _extract_se_recv_fields: the response_code_host branch.
HostCodeOutcome(txn, val) ==
  IF val = "00" THEN [txn EXCEPT !.response_code = "AA"]
  ELSE IF val \in {"05", "14", "51"} THEN [txn EXCEPT !.response_code = "DD"]
  ELSE txn

\* _extract_se_recv_fields, in the order of SE_RECV_FIELD_PATTERNS.
ExtractSeRecvFields(txn, msg) ==
  LET t1 == IF msg.recv_response_code_host # ""
            THEN HostCodeOutcome(txn, msg.recv_response_code_host) ELSE txn
      t2 == IF msg.recv_auth_number # ""
            THEN [t1 EXCEPT !.authorization_number = msg.recv_auth_number] ELSE t1
  IN  IF msg.recv_host_response # ""
      THEN [t2 EXCEPT !.host_response_code = msg.recv_host_response] ELSE t2

\* Mutant of SoftStartApplies: the marker starts a transaction in any state
\* but ONLINE_PENDING.
SoftStartUnlessPending(st, e) ==
  st # ONLINE_PENDING /\ e.message.tender_type_set /\ e.category = "DLL-EX"

\* _process_entry, lines 149-153: the soft start on a TenderTypePOS marker.
SoftStartApplies(st, e) ==
  st = IDLE /\ e.message.tender_type_set /\ e.category = "DLL-EX"

\* _process_entry, lines 165-173: SE_SEND on the SVREPS channel.
OnSeSend(txn, e) ==
  LET msg == e.message IN
  IF msg.se_send # <<>> /\ e.category = "SVREPS"
  THEN ExtractSeSendFields(
         [txn EXCEPT !.se_send_time = e.timestamp,
                     !.host_url = msg.se_send[1],
                     !.sequence_number = msg.se_send[2]], msg)
  ELSE txn

\* _process_entry, lines 175-183: SE_RECV on the SVREPS channel.
OnSeRecv(txn, e) ==
  LET msg == e.message IN
  IF msg.se_recv # <<>> /\ e.category = "SVREPS"
  THEN ExtractSeRecvFields(
         [txn EXCEPT !.se_recv_time = e.timestamp,
                     !.host_latency_ms = LatencyMs(msg.se_recv)], msg)
  ELSE txn

\* _process_entry, lines 168 and 178: the state after the host exchange markers.
HostExchangeState(st, e) ==
  LET s1 == IF e.message.se_send # <<>> /\ e.category = "SVREPS"
            THEN ONLINE_PENDING ELSE st
  IN  IF e.message.se_recv # <<>> /\ e.category = "SVREPS"
      THEN COMPLETING ELSE s1

\* _process_entry, lines 185-193: response codes from the TCP/IP channel.
TcpResponseCodes(txn, e) ==
  LET msg == e.message
      t1 == IF msg.response_code # "" /\ e.category = "TCP/IP"
               /\ txn.response_code = ""
            THEN [txn EXCEPT !.response_code = msg.response_code] ELSE txn
  IN  IF msg.host_response # "" /\ e.category = "TCP/IP"
      THEN [t1 EXCEPT !.host_response_code = msg.host_response] ELSE t1

\* Mutant of ResetClearEnds: the marker ends the transaction unconditionally.
ResetClearEndsAlways(txn, msg) == msg.reset_clear_end

\* _process_entry, lines 205-207: Reset_Clear END ends a decisioned transaction.
ResetClearEnds(txn, msg) ==
  msg.reset_clear_end /\ txn.response_code # ""

\* Mutant of CountSerialError: the counter is set, not incremented.
CountSerialErrorFlag(txn, msg) ==
  IF msg.send_ack_fail
  THEN [txn EXCEPT !.serial_error_count = 1] ELSE txn

\* _process_entry, lines 215-217: serial error during transaction.
CountSerialError(txn, msg) ==
  IF msg.send_ack_fail
  THEN [txn EXCEPT !.serial_error_count = @ + 1] ELSE txn

\* _process_entry, lines 219-222: SCAT state transition.
TrackScatState(txn, msg) ==
  IF msg.scat_state # ""
  THEN [txn EXCEPT !.state_sequence = Append(@, msg.scat_state)] ELSE txn

\* _process_entry, lines 158-193: what an entry does to the open transaction
\* before the end markers are looked at.
Scanned(txn, e) ==
  TcpResponseCodes(
    OnSeRecv(OnSeSend(ExtractFields([txn EXCEPT !.entry_count = @ + 1], e), e), e),
    e)

\* Mutant of FlushBoundary: the first buffered entry instead of the last.
FlushBoundaryFirst(buf) == IF Len(buf) > 0 THEN buf[1] ELSE None

\* process_entries, line 128: the entry the end-of-stream flush finalizes with.
FlushBoundary(buf) == IF Len(buf) > 0 THEN buf[Len(buf)] ELSE None

(***************************************************************************)
(* Input: the log lines the entry stream is drawn from                     *)
(***************************************************************************)
\* "MTX_POS_BeginOrder"
MsgBeginOrder == [NoMsg EXCEPT !.begin_order = TRUE]

\* "MTX_POS_EndOrder"
MsgEndOrder == [NoMsg EXCEPT !.end_order = TRUE]

\* "SE_SEND(TimeOutSecs 30) [60 bytes] URL[https://trn2.servereps.com/sCAT2]
\*  Aa145714 Ab1 Ae9218 BnDB Da5000 Bp1234 BfE"
MsgSeSendDebit ==
  [NoMsg EXCEPT !.se_send = <<"https://trn2.servereps.com/sCAT2", "9218">>,
                !.send_card_type_code = "DB", !.send_amount = 5000,
                !.send_pan_last4 = "1234", !.send_entry_method = <<"E">>]

\* "SE_SEND(TimeOutSecs 30) [90 bytes] URL[https://trn1.servereps.com/sCAT2]
\*  Ae9300 BnVS Da700 Dc100 Bp5678 BfEC 84-A0000000031010 50- VISA |95-8000008000
\*  |9F34-3F0000 GhB,C [..."
MsgSeSendCreditPrePin ==
  [NoMsg EXCEPT !.se_send = <<"https://trn1.servereps.com/sCAT2", "9300">>,
                !.send_card_type_code = "VS", !.send_amount = 700,
                !.send_cashback = 100, !.send_pan_last4 = "5678",
                !.send_entry_method = <<"E", "C">>,
                !.send_aid_field = "A0000000031010",
                !.send_app_label_field = Padded("VISA"),
                !.send_tvr_field = "8000008000",
                !.send_cvm_field = "3F0000",
                !.send_tac_seq = Padded("B,C")]

\* "SE_SEND(TimeOutSecs 30) [40 bytes] URL[https://trn1.servereps.com/sCAT2]
\*  Ae9301 9F34-1E0300"
MsgSeSendCvm ==
  [NoMsg EXCEPT !.se_send = <<"https://trn1.servereps.com/sCAT2", "9301">>,
                !.send_cvm_field = "1E0300"]

\* "SE_RECV(<whole>.<mmm> secs) [250 bytes] Ae9218 Af<code> Ag123456"
MsgSeRecv(secs, code) ==
  [NoMsg EXCEPT !.se_recv = secs, !.recv_response_code_host = code,
                !.recv_auth_number = "123456"]

\* "SE_RECV(0.250 secs) [80 bytes] Ae9300 Mb200": no Af field at all.
MsgSeRecvNoCode ==
  [NoMsg EXCEPT !.se_recv = <<0, 250>>, !.recv_host_response = "200"]

\* "TenderTypeMTXi = 2 <Credit>"
MsgTenderCredit == [NoMsg EXCEPT !.tender_type = <<"Credit">>]

\* "TenderTypeMTXi = 5 <EBT Food Stamp>"
MsgTenderFood == [NoMsg EXCEPT !.tender_type = <<"EBT", "Food", "Stamp">>]

\* "ResponseCode = DN" with "HostResponseCode = 100" and
\* "AuthorizationNumber = 777777"
MsgResponseDN ==
  [NoMsg EXCEPT !.response_code = "DN", !.host_response = "100",
                !.auth_number = "777777"]

\* "CVMR >3F0000<"
MsgCvmrPrePin == [NoMsg EXCEPT !.cvm_result = "3F0000"]

\* "CVMR >420300<"
MsgCvmr == [NoMsg EXCEPT !.cvm_result = "420300"]

\* "CardEntryType = S ... AppID >A0000000041010< AppLabel > MASTERCARD <
\*  tvr=0000008000, ****COMMAND SEQUENCE for EMV >A,B< IsQuickChip=Y"
MsgEmv ==
  [NoMsg EXCEPT !.card_entry = "S", !.aid = "A0000000041010",
                !.app_label = Padded("MASTERCARD"), !.tvr = "0000008000",
                !.cmd_sequence = Txt("A,B"), !.quickchip = "Y"]

\* "MTX_POS_SET_TenderTypePOS = 2"
MsgTenderTypeSet == [NoMsg EXCEPT !.tender_type_set = TRUE]

\* "Reset_Clear END"
MsgResetClearEnd == [NoMsg EXCEPT !.reset_clear_end = TRUE]

\* "****ERROR: SendMsgWaitAck3Tries failed, rtn 0"
MsgSendAckFail == [NoMsg EXCEPT !.send_ack_fail = TRUE]

\* ">>>>>>SCATState = Idle - was Busy"
MsgScatState == [NoMsg EXCEPT !.scat_state = "Idle"]

\* The <category, message> pairs a stream entry is drawn from.
Lines ==
  { <<"DLL-EX", MsgBeginOrder>>, <<"DLL-EX", MsgEndOrder>>,
    <<"SVREPS", MsgSeSendDebit>>, <<"SVREPS", MsgSeSendCreditPrePin>>,
    <<"SVREPS", MsgSeSendCvm>>,
    <<"SVREPS", MsgSeRecv(<<1, 743>>, "00")>>,
    <<"SVREPS", MsgSeRecv(<<2, 50>>, "05")>>,
    <<"SVREPS", MsgSeRecv(<<0, 900>>, "14")>>,
    <<"SVREPS", MsgSeRecv(<<30, 1>>, "51")>>,
    <<"SVREPS", MsgSeRecv(<<0, 5>>, "91")>>,
    <<"SVREPS", MsgSeRecvNoCode>>,
    <<"TCP/IP", MsgSeRecv(<<9, 999>>, "00")>>,
    <<"TCP/IP", MsgTenderCredit>>, <<"DLL-EX", MsgTenderFood>>,
    <<"TCP/IP", MsgResponseDN>>, <<"DLL-EX", MsgResponseDN>>,
    <<"TCP/IP", MsgCvmrPrePin>>, <<"TCP/IP", MsgCvmr>>,
    <<"TCP/IP", MsgEmv>>,
    <<"DLL-EX", MsgTenderTypeSet>>, <<"TCP/IP", MsgTenderTypeSet>>,
    <<"DLL-EX", MsgResetClearEnd>>,
    <<"SERIAL", MsgSendAckFail>>,
    <<"TCP/IP", MsgScatState>>,
    <<"METRIC", NoMsg>> }

\* Timestamp (seconds) of the entry on a line: not monotonic in the line.
TimeOf(line) == 100 + 5 * line - 7 * (line % 2)

\* The end-to-end scenario: its entries, in stream order.
Scenario ==
  << <<"DLL-EX", MsgBeginOrder>>, <<"SVREPS", MsgSeSendDebit>>,
     <<"SVREPS", MsgSeRecv(<<1, 743>>, "00")>>, <<"DLL-EX", MsgEndOrder>> >>

(***************************************************************************)
(* Part 2: RepeatExpander -- values and operators                          *)
(***************************************************************************)
\* Longest item stream (entries and directives) fed to RepeatExpander.process.
MaxItems == 22

\* Most directives in one item stream.
MaxDirectives == 2

\* RepeatExpander.__init__: max_lookback, the maxlen of the deque.
max_lookback == 20

\* ingestion.models.LogEntry with the two expansion fields the expander sets.
ExpLogEntry(line, ts, cat, msg, expanded, count) ==
  [line_number |-> line, timestamp |-> ts, category |-> cat, message |-> msg,
   is_expanded |-> expanded, expansion_count |-> count]

\* ingestion.models.RepeatDirective
RepeatDirective(line_count, repeat_count, line) ==
  [line_count |-> line_count, repeat_count |-> repeat_count,
   line_number |-> line]

IsDirective(it) == "repeat_count" \in DOMAIN it

\* The entry the parser makes of input line `line`: the message text differs
\* from line to line, the expansion fields keep their defaults.
ParsedEntry(line) ==
  ExpLogEntry(line, TimeOf(line), IF line % 3 = 0 THEN "TCP/IP" ELSE "SERIAL",
              IF line % 2 = 0 THEN "msgA" ELSE "msgB", FALSE, 1)

\* The directives the parser can make of input line `line`.
Directives(line) ==
  { RepeatDirective(n, m, line) : n \in {0, 1, 2, 21}, m \in {0, 1, 2} }

\* Mutant of DequeAppend: a list without maxlen.
DequeAppendUnbounded(buf, e) == Append(buf, e)

\* deque(maxlen=max_lookback).append: the oldest entry falls out when full.
DequeAppend(buf, e) ==
  IF Len(buf) >= max_lookback THEN Append(Tail(buf), e) ELSE Append(buf, e)

\* Mutant of SourceLines: the first n entries of the buffer.
SourceLinesFirst(buf, n) ==
  IF n >= Len(buf) THEN buf ELSE SubSeq(buf, 1, n)

\* line 30: buf_list[-item.line_count:], with Python's slice clamping
\* (-0 is 0, so line_count 0 takes everything; a count beyond the length
\* takes everything there is).
SourceLines(buf, n) ==
  IF n = 0 \/ n >= Len(buf) THEN buf
  ELSE SubSeq(buf, Len(buf) - n + 1, Len(buf))

\* lines 36-45: the copy yielded for one source line.
ExpandedCopy(line, count) ==
  ExpLogEntry(line.line_number, line.timestamp, line.category, line.message,
              TRUE, count)

\* Mutant of Replay: each block is replayed last line first.
ReplayReversed(source_lines, count) ==
  [ i \in 1..(Len(source_lines) * count) |->
      ExpandedCopy(source_lines[Len(source_lines) - ((i - 1) % Len(source_lines))],
                   count) ]

\* lines 34-45: the two nested loops, repeat_count blocks of the source lines.
Replay(source_lines, count) ==
  [ i \in 1..(Len(source_lines) * count) |->
      ExpandedCopy(source_lines[((i - 1) % Len(source_lines)) + 1], count) ]

\* The last entry of what has been yielded so far.
LastYielded(prev, batch) ==
  IF Len(batch) > 0 THEN batch[Len(batch)] ELSE prev

\* RepeatExpander.__init__ and a stream not yet touched.
ExpanderInit ==
  /\ buffer = <<>>
  /\ yielded = <<>>
  /\ item = None
  /\ xread = 0
  /\ ndir = 0
  /\ lastOut = None
  /\ originals = <<>>

(***************************************************************************)
(* Part 3: SCATStateMachine -- values and operators                        *)
(***************************************************************************)
\* Longest entry stream fed to SCATStateMachine.process_entry.
MaxScatEntries == 5

\* What SCAT_STATE_PATTERN and ALIVE_PATTERN find in a message: the two
\* state names ("" when there is no match), the status digit (NoInt when
\* there is no match) and the status name.
ScatMsg(new_state, old_state, status, name) ==
  [state_new |-> new_state, state_old |-> old_state,
   alive |-> status, alive_name |-> name]

MsgAlive(status) ==
  ScatMsg("", "", status,
          IF status = 0 THEN "ReportScatDead"
          ELSE IF status = 3 THEN "ReportScatAlive" ELSE "ReportScatNone")

\* The messages of the liveness stream: alive markers, named-state markers
\* (one of them repeating itself), both in one line, neither.
ScatLines ==
  { MsgAlive(0), MsgAlive(3), MsgAlive(9),
    ScatMsg("StateIdle", "StateIdle", NoInt, ""),
    ScatMsg("StateReset", "StateNone", NoInt, ""),
    ScatMsg("StateIdle", "StateReset", 0, "ReportScatDead"),
    ScatMsg("", "", NoInt, "") }

\* The alive values 3, 3, 0, 0, 3 of the dedup scenario.
AliveScenario == <<3, 3, 0, 0, 3>>

\* lines 49-53: SCATStateChange(timestamp, new_state, old_state);
\* alive_status keeps its default None.
SCATStateChange(e) ==
  [timestamp |-> e.timestamp, new_state |-> e.message.state_new,
   old_state |-> e.message.state_old, alive_status |-> None]

\* Mutant of AliveChanged: every alive marker is a transition.
AliveChangedAlways(status, cur) == TRUE

\* line 60: status != self.alive_status
AliveChanged(status, cur) == status # cur

\* Mutant of AliveRecord: the line number in place of the timestamp.
AliveRecordLine(e) ==
  <<e.line_number, e.message.alive, e.message.alive_name>>

\* line 62: (entry.timestamp, status, name)
AliveRecord(e) == <<e.timestamp, e.message.alive, e.message.alive_name>>

\* get_dead_periods, lines 76-87: the loop over alive_history from index i
\* on, then the open-ended period.
RECURSIVE DeadPeriodsFrom(_, _, _, _)
DeadPeriodsFrom(hist, i, dead_start, periods) ==
  IF i > Len(hist)
  THEN IF dead_start # NoTime /\ Len(hist) > 0
       THEN LET last_ts == hist[Len(hist)][1] IN
            Append(periods, <<dead_start, last_ts, last_ts - dead_start>>)
       ELSE periods
  ELSE LET ts == hist[i][1]
           status == hist[i][2]
       IN  IF status = 0 /\ dead_start = NoTime
           THEN DeadPeriodsFrom(hist, i + 1, ts, periods)
           ELSE IF status # 0 /\ dead_start # NoTime
           THEN DeadPeriodsFrom(hist, i + 1, NoTime,
                                Append(periods, <<dead_start, ts, ts - dead_start>>))
           ELSE DeadPeriodsFrom(hist, i + 1, dead_start, periods)

\* Mutant of DeadPeriods: a run still open at the end is left out.
DeadPeriodsClosedOnly(hist) ==
  LET all == DeadPeriodsFrom(hist, 1, NoTime, <<>>) IN
  IF Len(hist) > 0 /\ hist[Len(hist)][2] = 0
  THEN SubSeq(all, 1, Len(all) - 1) ELSE all

\* get_dead_periods, lines 72-88; timestamps count seconds, so that
\* total_seconds() of a difference is the difference.
DeadPeriods(hist) == DeadPeriodsFrom(hist, 1, NoTime, <<>>)

\* The result of get_dead_periods, and the lack of one.
Returned(periods) == [called |-> TRUE, periods |-> periods]
NotCalled == [called |-> FALSE, periods |-> <<>>]

\* SCATStateMachine.__init__; get_dead_periods has not been called.
ScatInit ==
  /\ current_state = "StateNone"
  /\ alive_status = 9
  /\ state_history = <<>>
  /\ alive_history = <<>>
  /\ scat_entry = None
  /\ sread = 0
  /\ sscen = 0
  /\ dead_periods = NotCalled

(***************************************************************************)
(* Part 4: ErrorCascadeDetector -- values and operators                    *)
(***************************************************************************)
\* Longest entry stream fed to ErrorCascadeDetector.process_entries.
MaxCascadeEntries == 4

\* error_cascade.py, line 16; timestamps of this part count milliseconds, so
\* total_seconds() of a difference d is d / 1000.
MAX_GAP_SECONDS == 5

\* Python None for Optional[float] (recovery_time_ms).
NoMs == -1

\* What the detector looks for in a message: the capture of ERROR_PATTERN
\* after strip() ("" when there is no match), whether PROCESS_FAILED matches,
\* whether the message contains "SCATAliveInt = 3", whether it contains
\* "Ready", and the message itself after strip().
CascadeMsg(error_text, process_failed, alive3, ready, text) ==
  [error_text |-> error_text, process_failed |-> process_failed,
   alive3 |-> alive3, ready |-> ready, text |-> text]

MsgErrorA == CascadeMsg("Error A", FALSE, FALSE, FALSE, "****ERROR: Error A")
MsgProcessFailed ==
  CascadeMsg("", TRUE, FALSE, FALSE, "ProcessRequest FAILED")
MsgNoise == CascadeMsg("", FALSE, FALSE, FALSE, "Normal log message")
MsgReady == CascadeMsg("", FALSE, FALSE, TRUE, "Pinpad Ready")
MsgAlive3 ==
  CascadeMsg("", FALSE, TRUE, FALSE, "SCATAliveInt = 3 (ReportScatAlive)")

\* A line whose ERROR_PATTERN capture has 101 characters.
LongErrorText ==
  "SendMsgWaitAck3Tries failed: no ACK from the device on COM3 after three attempts, closing the port no"

MsgErrorLong ==
  CascadeMsg(LongErrorText, FALSE, FALSE, FALSE, "****ERROR: long text")

CascadeLines ==
  { MsgErrorA, MsgProcessFailed, MsgNoise, MsgReady, MsgAlive3, MsgErrorLong }

\* s[:100] on the captures of the model.
Truncate100(s) ==
  IF s = LongErrorText
  THEN "SendMsgWaitAck3Tries failed: no ACK from the device on COM3 after three attempts, closing the port n"
  ELSE s

\* Milliseconds from one entry of the stream to the next: back in time,
\* inside the gap, on its boundary, just beyond it, far beyond it.
CascadeDeltas == { -2000, 1000, 5000, 5001, 19000 }

\* Timestamp of the first entry of the stream.
CascadeBase == 100000

\* The splitting scenario: error lines at offsets 0, 1, 20, 21 seconds.
CascadeScenario == << 0, 1000, 20000, 21000 >>

\* lines 32-35
is_error(msg) == msg.error_text # "" \/ msg.process_failed

\* segmentation.models.ErrorCascadeData as built at lines 40-51.
NewCascade(e) ==
  [start_line |-> e.line_number, end_line |-> 0,
   start_time |-> e.timestamp, end_time |-> NoTime,
   error_pattern |-> IF e.message.error_text # ""
                     THEN Truncate100(e.message.error_text)
                     ELSE IF e.message.process_failed
                          THEN "ProcessRequest FAILED" ELSE "",
   error_count |-> 1, first_error_message |-> e.message.text,
   recovery_achieved |-> FALSE, recovery_time_ms |-> NoMs]

\* The same as built at lines 64-72: the label comes from ERROR_PATTERN only.
NewCascadeAfterSplit(e) ==
  [NewCascade(e) EXCEPT !.error_pattern = Truncate100(e.message.error_text)]

\* Mutant of WithinGap: the boundary is excluded.
WithinGapStrict(gap_ms) == gap_ms < MAX_GAP_SECONDS * 1000

\* lines 53-54: total_seconds() <= self._max_gap
WithinGap(gap_ms) == gap_ms <= MAX_GAP_SECONDS * 1000

\* Mutant of BeyondGap: the boundary is included.
BeyondGapInclusive(gap_ms) == gap_ms >= MAX_GAP_SECONDS * 1000

\* lines 79-80: total_seconds() > self._max_gap
BeyondGap(gap_ms) == gap_ms > MAX_GAP_SECONDS * 1000

\* Mutant of ContinueCascade: the line is not counted.
ContinueCascadeUncounted(c, e) ==
  [c EXCEPT !.end_line = e.line_number, !.end_time = e.timestamp]

\* lines 57-59
ContinueCascade(c, e) ==
  [c EXCEPT !.error_count = @ + 1, !.end_line = e.line_number,
            !.end_time = e.timestamp]

\* _finalize, lines 100-103
Finalize(c) ==
  IF c.end_time = NoTime
  THEN [c EXCEPT !.end_time = c.start_time, !.end_line = c.start_line]
  ELSE c

\* lines 84-90, on a finalized cascade
Recovered(c, e) ==
  IF e.message.alive3 \/ e.message.ready
  THEN [c EXCEPT !.recovery_achieved = TRUE,
                 !.recovery_time_ms = e.timestamp - c.end_time]
  ELSE c

\* ErrorCascadeDetector.__init__ and a stream not yet touched.
CascadeInit ==
  /\ cascade_current = None
  /\ last_error_time = NoTime
  /\ cascades = <<>>
  /\ cascade_entry = None
  /\ cread = 0
  /\ cpc = "reading"
  /\ cscen = 0
  /\ cerrors = 0

(***************************************************************************)
(* Part 5: HealthSegmenter -- values and operators                         *)
(***************************************************************************)
\* Longest entry stream fed to HealthSegmenter.process_entries.
MaxHealthEntries == 4

\* What the segmenter's patterns find in a message ("" when there is no
\* match): group 2 of EXCHANGE_INFO_SEND; group 1 of EXCHANGE_INFO_RESULT
\* and of MONITORING_RESULT, with what HTTP_ERROR and SOCKET_ERROR capture
\* in the error string; group 1 of LOGIN_RESULT.
HealthMsg(send_host, result_code, mon_code, http, socket, login) ==
  [send_host |-> send_host, result_code |-> result_code,
   mon_code |-> mon_code, http |-> http, socket |-> socket, login |-> login]

MsgXiSend == HealthMsg("10.1.1.5:443", "", "", "", "", "")
MsgXiResultOk == HealthMsg("", "0", "", "", "", "")
MsgXiResultHttp == HealthMsg("", "3", "", "500", "", "")
MsgXiResultBoth == HealthMsg("", "7", "", "404", "10061", "")
MsgMonResult == HealthMsg("", "", "0", "", "", "")
MsgMonResultSocket == HealthMsg("", "", "12", "", "10060", "")
MsgLoginOk == HealthMsg("", "", "", "", "", "lrNothingNew")
MsgLoginFail == HealthMsg("", "", "", "", "", "lrError")
MsgHealthNoise == HealthMsg("", "", "", "", "", "")

\* The <<category, message>> pairs of the health stream; one start marker
\* comes under a category other than SVREPS.
HealthLines ==
  { <<"SVREPS", MsgXiSend>>, <<"SVREPS", MsgXiResultOk>>,
    <<"SVREPS", MsgXiResultHttp>>, <<"SVREPS", MsgXiResultBoth>>,
    <<"SVREPS", MsgMonResult>>, <<"SVREPS", MsgMonResultSocket>>,
    <<"SVREPS", MsgLoginOk>>, <<"SVREPS", MsgLoginFail>>,
    <<"SVREPS", MsgHealthNoise>>, <<"TCP/IP", MsgXiSend>> }

\* segmentation.models.HealthCheckData with its defaults.
HealthCheckData ==
  [start_line |-> 0, end_line |-> 0, start_time |-> NoTime,
   end_time |-> NoTime, check_type |-> "", target_host |-> "",
   success |-> FALSE, error_code |-> "", http_status |-> "",
   latency_ms |-> 0]

\* lines 89 and 112: f"Socket_{n}", for the socket codes of the stream.
SocketStatus(n) ==
  IF n = "10061" THEN "Socket_10061"
  ELSE IF n = "10060" THEN "Socket_10060" ELSE "Socket_"

\* Mutant of HttpStatus: the HTTP code wins over the socket code.
HttpStatusHttpWins(old, msg) ==
  IF msg.http # "" THEN msg.http
  ELSE IF msg.socket # "" THEN SocketStatus(msg.socket) ELSE old

\* lines 84-89 and 107-112: the socket code is written after the HTTP code.
HttpStatus(old, msg) ==
  IF msg.socket # "" THEN SocketStatus(msg.socket)
  ELSE IF msg.http # "" THEN msg.http ELSE old

\* lines 61-66
ExchangeInfoStart(e) ==
  [HealthCheckData EXCEPT !.start_line = e.line_number,
                          !.start_time = e.timestamp,
                          !.check_type = "ExchangeInfo",
                          !.target_host = e.message.send_host]

\* lines 72-89; timestamps of this part count milliseconds.
ExchangeInfoResult(cur, e) ==
  [cur EXCEPT !.end_line = e.line_number,
              !.end_time = e.timestamp,
              !.error_code = e.message.result_code,
              !.success = (e.message.result_code = "0"),
              !.latency_ms = IF cur.start_time # NoTime
                             THEN e.timestamp - cur.start_time ELSE @,
              !.http_status = HttpStatus(@, e.message)]

\* Mutant of MonitoringRecord: the end line and time keep their defaults.
MonitoringRecordNoEnd(e) ==
  [HealthCheckData EXCEPT !.start_line = e.line_number,
                          !.start_time = e.timestamp,
                          !.check_type = "MonitoringStatus",
                          !.error_code = e.message.mon_code,
                          !.success = (e.message.mon_code = "0"),
                          !.http_status = HttpStatus(@, e.message)]

\* lines 97-112
MonitoringRecord(e) ==
  [HealthCheckData EXCEPT !.start_line = e.line_number,
                          !.start_time = e.timestamp,
                          !.end_line = e.line_number,
                          !.end_time = e.timestamp,
                          !.check_type = "MonitoringStatus",
                          !.error_code = e.message.mon_code,
                          !.success = (e.message.mon_code = "0"),
                          !.http_status = HttpStatus(@, e.message)]

\* lines 119-127
LoginRecord(e) ==
  [HealthCheckData EXCEPT !.start_line = e.line_number,
                          !.start_time = e.timestamp,
                          !.end_line = e.line_number,
                          !.end_time = e.timestamp,
                          !.check_type = "Login",
                          !.success = (e.message.login
                                         \in {"lrNothingNew", "lrWaitForFiles"}),
                          !.error_code = e.message.login]

\* process_entries, line 49, and a stream not yet touched.
HealthInit ==
  /\ health_current = None
  /\ health_checks = <<>>
  /\ health_entry = None
  /\ hread = 0
  /\ hpc = "reading"

(***************************************************************************)
(* Part 6: RuleEngine (ml/rules.py) over the tables of one file            *)
(***************************************************************************)

\* Timestamps are milliseconds.  A confidence is the exact rational
\* <<numerator, denominator>> of the value the detector computes.

\* The longest alive_history handed to insert_batch.
MaxAliveEntries == 4

Min(a, b) == IF a <= b THEN a ELSE b

RECURSIVE GCD(_, _)
GCD(a, b) == IF b = 0 THEN a ELSE GCD(b, a % b)

\* Two rationals are equal when their lowest terms are.
LowestTerms(p) == <<p[1] \div GCD(p[1], p[2]), p[2] \div GCD(p[1], p[2])>>

RatEq(p, q) == LowestTerms(p) = LowestTerms(q)

\* config/issue_types.py: the IssueType dataclass (indicators are not read
\* by the rule engine).
IssueType(id, name, severity, severity_rank, description, resolution_steps) ==
  [id |-> id, name |-> name, severity |-> severity,
   severity_rank |-> severity_rank, description |-> description,
   resolution_steps |-> resolution_steps]

ISSUE_TYPES ==
  [ serial_comm_failure |->
     IssueType(1, "serial_comm_failure", "critical", 1,
       "Pinpad serial communication lost - SendMsgWaitAck3Tries failures",
       <<"1. Check USB/serial cable connection to pinpad",
         "2. Power cycle the pinpad (unplug for 30 seconds)",
         "3. Verify COM port settings (COM9, 115200 baud)",
         "4. Check for loose connections at both ends",
         "5. Try a different USB port or cable">>),
    scat_dead |->
     IssueType(2, "scat_dead", "critical", 1,
       "Pinpad is dead/unresponsive for extended period",
       <<"1. Power cycle the pinpad",
         "2. Have cashier re-sign-on (CheckerSignOn)",
         "3. Check COM9 cable connection",
         "4. Verify M400 firmware version",
         "5. If P2P mismatch: check encryption configuration">>),
    servereps_500 |->
     IssueType(3, "servereps_500", "high", 2,
       "ServerEPS returning HTTP 500 Internal Server Error",
       <<"1. Check ServerEPS service status (svc1/svc2.servereps.com)",
         "2. Verify network connectivity from POS",
         "3. If persistent: contact MicroTrax support",
         "4. System will auto-failover to secondary DC">>),
    servereps_socket_error |->
     IssueType(4, "servereps_socket_error", "high", 2,
       "Socket error connecting to ServerEPS",
       <<"1. Check store internet connectivity",
         "2. Verify DNS resolution for servereps.com",
         "3. Check firewall rules (ports 443/HTTPS)",
         "4. Socket 10054: Remote server reset connection",
         "5. Socket 10060: Network timeout - check ISP">>),
    host_timeout |->
     IssueType(5, "host_timeout", "high", 2,
       "Host authorization timeout (SE_SEND without SE_RECV)",
       <<"1. Check network latency to ServerEPS hosts",
         "2. Verify transaction host (trn1/trn2.servereps.com)",
         "3. Check for network congestion",
         "4. If widespread: ServerEPS capacity issue">>),
    chip_read_failure |->
     IssueType(6, "chip_read_failure", "medium", 3,
       "Chip card read failures causing fallback to swipe",
       <<"1. Clean the chip card reader slot",
         "2. Have customer try reinserting card",
         "3. If persistent: chip reader hardware issue",
         "4. Check for debris in card slot">>),
    certificate_failure |->
     IssueType(7, "certificate_failure", "high", 2,
       "SSL certificate validation failure",
       <<"1. Check system clock (date/time sync)",
         "2. Verify certificate store is up to date",
         "3. Download latest cert storage from ServerEPS",
         "4. If clock drift: sync NTP">>),
    transaction_abort |->
     IssueType(8, "transaction_abort", "medium", 3,
       "Transaction aborted without completion",
       <<"1. Normal if customer removed card early",
         "2. Check if POS sent cancel request",
         "3. If repeated: check timeout settings">>),
    repeated_decline |->
     IssueType(9, "repeated_decline", "low", 4,
       "Multiple consecutive transaction declines",
       <<"1. Normal issuer behavior (insufficient funds, fraud hold)",
         "2. Check if same card being retried",
         "3. For EBT: verify available balance",
         "4. Not a system issue unless all cards declining">>),
    pinpad_restart_loop |->
     IssueType(10, "pinpad_restart_loop", "critical", 1,
       "Pinpad rapidly cycling through reset/dead states",
       <<"1. Power cycle pinpad (unplug for 60 seconds)",
         "2. Check for intermittent cable/power connection",
         "3. Try a different USB cable",
         "4. Check pinpad power supply",
         "5. May need pinpad replacement if hardware failing">>),
    memory_pressure |->
     IssueType(11, "memory_pressure", "medium", 3,
       "System memory pressure increasing",
       <<"1. Restart POS application",
         "2. Check for memory leaks in DLL",
         "3. Monitor HeapTotalFree over time">>),
    p2p_encryption_mismatch |->
     IssueType(12, "p2p_encryption_mismatch", "critical", 1,
       "P2P encryption required but terminal not capable",
       <<"1. Verify pinpad supports P2P encryption",
         "2. Check terminal configuration version",
         "3. Update pinpad firmware if needed",
         "4. Verify VSD/SRED encryption module is enabled">>),
    card_read_intermittent |->
     IssueType(13, "card_read_intermittent", "high", 2,
       "Intermittent card read failures - customers waiting at pinpad with no card read",
       <<"1. Clean the chip card reader slot and contactless reader surface",
         "2. Inspect mag stripe reader for debris or damage",
         "3. Check for worn/damaged card reader contacts",
         "4. Power cycle pinpad (unplug for 60 seconds)",
         "5. If 7-8 AM spike: check USB power management settings (disable selective suspend)",
         "6. If chronic (>15% daily rate): schedule pinpad replacement",
         "7. Check if NFC/contactless antenna is loose">>) ]

make_issue_rank_from_id(issue_type, confidence, time_range, evidence) ==
  [issue_type |-> issue_type.name,
   severity |-> issue_type.severity,
   severity_rank |-> issue_type.id,
   confidence |-> confidence,
   description |-> issue_type.description,
   time_range |-> time_range,
   evidence |-> evidence,
   resolution_steps |-> issue_type.resolution_steps]

\* RuleEngine._make_issue
make_issue(issue_type, confidence, time_range, evidence) ==
  [issue_type |-> issue_type.name,
   severity |-> issue_type.severity,
   severity_rank |-> issue_type.severity_rank,
   confidence |-> confidence,
   description |-> issue_type.description,
   time_range |-> time_range,
   evidence |-> evidence,
   resolution_steps |-> issue_type.resolution_steps]

\* The (window_start, window_end) pairs analyze_file is called with; NoTime
\* stands for an argument left at None.
Windows == {<<NoTime, NoTime>>, <<60001, 120001>>, <<120002, NoTime>>}

\* RuleEngine._outside_window
outside_window(event_start, event_end, window_start, window_end) ==
  IF window_start = NoTime /\ window_end = NoTime THEN FALSE
  ELSE IF window_start # NoTime /\ event_end < window_start THEN TRUE
  ELSE IF window_end # NoTime /\ event_start > window_end THEN TRUE
  ELSE FALSE

\* RuleEngine._time_filter_sql: the WHERE fragment applied to ts_col.
time_filter_sql(ts, window_start, window_end) ==
  /\ window_start # NoTime => ts >= window_start
  /\ window_end # NoTime => ts <= window_end

\* The statuses and the distances between consecutive alive_history entries
\* of the file (two transitions may carry the same millisecond).
AliveStatuses == {0, 3}
AliveDeltas == {0, 60000, 60001, 1800000}

\* SCATTimelineRepo.insert_batch: one row per timestamp, with the last
\* status given for it.
insert_batch(entries) ==
  { [timestamp |-> entries[i].timestamp, alive_status |-> entries[i].alive_status] :
      i \in { k \in 1..Len(entries) :
                \A j \in (k+1)..Len(entries) :
                   entries[j].timestamp # entries[k].timestamp } }

\* ORDER BY timestamp on a table whose rows have distinct timestamps.
RECURSIVE OrderByTimestamp(_)
OrderByTimestamp(table) ==
  IF table = {} THEN <<>>
  ELSE LET first == CHOOSE r \in table : \A q \in table : r.timestamp <= q.timestamp
       IN  <<first>> \o OrderByTimestamp(table \ {first})

\* `if duration_sec > 60` of _check_scat_dead.
DeadLongEnoughInclusive(duration_ms) == duration_ms >= 60000

DeadLongEnough(duration_ms) == duration_ms > 60000

\* f"{duration_sec/60:.1f}": tenths of a minute (no duration of the model
\* lies on a rounding tie).
TenthsOfMinutes(duration_ms) == (duration_ms + 3000) \div 6000

\* The issue of a dead period closed by a later non-zero status.
ScatDeadIssue(dead_start, ts) ==
  make_issue(ISSUE_TYPES.scat_dead,
             <<Min(3420000, 1800000 + (ts - dead_start)), 3600000>>,
             <<dead_start, ts>>,
             [text |-> "Pinpad dead for minutes",
              minutes10 |-> TenthsOfMinutes(ts - dead_start)])

\* The issue of a dead period still open at the last row.
StillDeadIssue(dead_start, last_ts) ==
  make_issue(ISSUE_TYPES.scat_dead,
             <<9, 10>>,
             <<dead_start, NoTime>>,
             [text |-> "Pinpad dead for + minutes (still dead)",
              minutes10 |-> TenthsOfMinutes(last_ts - dead_start)])

\* The loop of _check_scat_dead over the ordered rows: the issues found and
\* the dead_start left at the end.
RECURSIVE ScatDeadLoop(_, _, _, _, _, _)
ScatDeadLoop(rows, i, dead_start, acc, window_start, window_end) ==
  IF i > Len(rows) THEN [dead_start |-> dead_start, issues |-> acc]
  ELSE LET ts == rows[i].timestamp
           status == rows[i].alive_status
       IN  IF status = 0 /\ dead_start = NoTime
           THEN ScatDeadLoop(rows, i + 1, ts, acc, window_start, window_end)
           ELSE IF status # 0 /\ dead_start # NoTime
           THEN ScatDeadLoop(rows, i + 1, NoTime,
                  IF /\ DeadLongEnough(ts - dead_start)
                     /\ ~ outside_window(dead_start, ts, window_start, window_end)
                  THEN Append(acc, ScatDeadIssue(dead_start, ts))
                  ELSE acc,
                  window_start, window_end)
           ELSE ScatDeadLoop(rows, i + 1, dead_start, acc, window_start, window_end)

\* RuleEngine._check_scat_dead
check_scat_dead(table, window_start, window_end) ==
  LET rows == OrderByTimestamp(table)
      done == ScatDeadLoop(rows, 1, NoTime, <<>>, window_start, window_end)
      last_ts == rows[Len(rows)].timestamp
  IN  IF rows = <<>> THEN <<>>
      ELSE IF /\ done.dead_start # NoTime
              /\ DeadLongEnough(last_ts - done.dead_start)
              /\ ~ outside_window(done.dead_start, last_ts, window_start, window_end)
      THEN Append(done.issues, StillDeadIssue(done.dead_start, last_ts))
      ELSE done.issues

\* The most error_cascade events of one file.
MaxCascadeRows == 2

\* The error_cascade events a file can hold: start_time, the distance to
\* end_time, error_pattern (NULL is the empty string), error_count and
\* recovery_achieved.
CascadeStarts == {30000, 60001, 130000}
CascadeLengths == {0, 40000}
CascadeCounts == {2, 3, 8}
CascadePatterns == {"", "SendMsgWaitAck3Tries failed"}

\* The orders a query may return a table in: every arrangement of its rows
\* that respects the ORDER BY, ties in any order.
Arrangements(table) ==
  { rows \in [1..Cardinality(table) -> table] :
      \A i, j \in 1..Cardinality(table) : i # j => rows[i] # rows[j] }

\* WHERE ec.error_count >= 3 and the time filter on e.start_time, ORDER BY
\* ec.error_count DESC.
CascadeSelected(window_start, window_end) ==
  { r \in error_cascades :
      /\ r.error_count >= 3
      /\ time_filter_sql(r.start_time, window_start, window_end) }

CascadeQuery(window_start, window_end) ==
  { rows \in Arrangements(CascadeSelected(window_start, window_end)) :
      \A i \in 1..(Len(rows) - 1) : rows[i].error_count >= rows[i+1].error_count }

\* RuleEngine._check_error_cascades on the rows the query returned.
check_error_cascades(rows) ==
  [ i \in 1..Len(rows) |->
      make_issue(ISSUE_TYPES.serial_comm_failure,
                 <<Min(90, 50 + rows[i].error_count * 5), 100>>,
                 <<rows[i].start_time, rows[i].end_time>>,
                 [text |-> "Error cascade",
                  error_count |-> rows[i].error_count,
                  pattern |-> IF rows[i].error_pattern = "" THEN "Unknown"
                              ELSE rows[i].error_pattern,
                  recovered |-> rows[i].recovery_achieved]) ]

\* The most log_entries rows of one file that a detector can select.
MaxLogRows == 4

\* The two messages the detectors search log_entries for, the timestamp of
\* the first row and the distances between consecutive rows.
ACK_FAILED == "SendMsgWaitAck3Tries failed"
P2P_MISMATCH == "IsP2PDLL=Y, IsTermP2PCapable=N"
LogMessages == {ACK_FAILED, P2P_MISMATCH}
LogFirst == 50001
LogDeltas == {5000, 9999, 10000}

\* ORDER BY timestamp on a list of rows (rows of equal timestamp keep
\* their order).
RECURSIVE SortByTimestamp(_)
SortByTimestamp(rows) ==
  IF rows = <<>> THEN <<>>
  ELSE LET k == CHOOSE i \in 1..Len(rows) :
                  /\ \A j \in 1..Len(rows) : rows[i].timestamp <= rows[j].timestamp
                  /\ \A j \in 1..(i-1) : rows[j].timestamp > rows[i].timestamp
       IN  <<rows[k]>> \o
           SortByTimestamp([ j \in 1..(Len(rows) - 1) |->
                               IF j < k THEN rows[j] ELSE rows[j+1] ])

\* SELECT ... FROM log_entries WHERE message LIKE '%pattern%' and the time
\* filter on timestamp.
LogSelect(pattern, window_start, window_end) ==
  SelectSeq(log_entries,
            LAMBDA r : /\ r.message = pattern
                       /\ time_filter_sql(r.timestamp, window_start, window_end))

\* `(row[0] - current_cluster[-1][0]).total_seconds() < 10`
SameClusterInclusive(gap_ms) == gap_ms <= 10000

SameCluster(gap_ms) == gap_ms < 10000

\* The clustering loop of _check_serial_failures over rows[1:].
RECURSIVE ClusterLoop(_, _, _, _)
ClusterLoop(rows, i, clusters, current_cluster) ==
  IF i > Len(rows) THEN Append(clusters, current_cluster)
  ELSE IF SameCluster(rows[i].timestamp
                        - current_cluster[Len(current_cluster)].timestamp)
       THEN ClusterLoop(rows, i + 1, clusters, Append(current_cluster, rows[i]))
       ELSE ClusterLoop(rows, i + 1, Append(clusters, current_cluster), <<rows[i]>>)

\* f"{seconds:.0f}": whole seconds (no span of the model lies on a
\* rounding tie).
WholeSeconds(span_ms) == (span_ms + 500) \div 1000

SerialIssue(cluster) ==
  make_issue(ISSUE_TYPES.serial_comm_failure,
             <<Min(95, 60 + Len(cluster) * 10), 100>>,
             <<cluster[1].timestamp, cluster[Len(cluster)].timestamp>>,
             [text |-> "ACK failures in s",
              count |-> Len(cluster),
              seconds |-> WholeSeconds(cluster[Len(cluster)].timestamp
                                         - cluster[1].timestamp)])

RECURSIVE SerialIssues(_, _)
SerialIssues(clusters, i) ==
  IF i > Len(clusters) THEN <<>>
  ELSE (IF Len(clusters[i]) >= 2 THEN <<SerialIssue(clusters[i])>> ELSE <<>>)
         \o SerialIssues(clusters, i + 1)

\* RuleEngine._check_serial_failures
check_serial_failures(window_start, window_end) ==
  LET rows == SortByTimestamp(LogSelect(ACK_FAILED, window_start, window_end))
  IN  IF rows = <<>> THEN <<>>
      ELSE SerialIssues(ClusterLoop(rows, 2, <<>>, <<rows[1]>>), 1)

\* The query of _check_p2p_mismatch: LIMIT 1 without ORDER BY returns any
\* one of the matching rows.
P2PQuery(window_start, window_end) ==
  LET rows == LogSelect(P2P_MISMATCH, window_start, window_end)
  IN  IF rows = <<>> THEN {<<>>}
      ELSE { <<rows[i]>> : i \in 1..Len(rows) }

\* RuleEngine._check_p2p_mismatch on the rows the query returned.
check_p2p_mismatch(rows) ==
  IF rows = <<>> THEN <<>>
  ELSE <<make_issue(ISSUE_TYPES.p2p_encryption_mismatch,
                    <<99, 100>>,
                    <<rows[1].timestamp>>,
                    [text |-> "P2P DLL requires encryption but terminal reports not capable"])>>

\* The most transactions stored one by one, beside a run of approved ones.
MaxTxnRows == 5

\* The transactions a file can hold.  Every one has start_time, end_time and
\* duration_ms = end_time - start_time (EventRepo.insert_event), and
\* is_approved is response_code = "AA".  The kinds differ in what the
\* detectors read; the position in the file varies the rest:
\*   approved     a card was read and the host approved;
\*   declined     DD or DN, with the card type or the host latency missing;
\*   no_read      no card type and no host call (latency NULL or 0), lasting
\*                exactly 15,000 ms or 45,000 ms;
\*   quick_cancel a no_read of 14,999 ms;
\*   slow_host    approved after a host latency of 5,000, 5,001 or 9,000 ms.
TxnKinds == {"approved", "declined", "no_read", "quick_cancel", "slow_host"}

TxnRow(kind, index, start) ==
  LET duration ==
        CASE kind = "no_read" -> IF index % 2 = 1 THEN 15000 ELSE 45000
          [] kind = "quick_cancel" -> 14999
          [] OTHER -> 20000
  IN  [start_time |-> start,
       end_time |-> start + duration,
       duration_ms |-> duration,
       response_code |->
         CASE kind \in {"approved", "slow_host"} -> "AA"
           [] kind = "declined" -> IF index % 2 = 1 THEN "DD" ELSE "DN"
           [] OTHER -> "",
       is_approved |-> kind \in {"approved", "slow_host"},
       card_type |->
         CASE kind \in {"approved", "slow_host"} -> "Credit"
           [] kind = "declined" -> IF index % 3 = 0 THEN "" ELSE "Debit"
           [] OTHER -> "",
       host_latency_ms |->
         CASE kind = "approved" -> 800
           [] kind = "slow_host" ->
                (CASE index % 3 = 1 -> 5001 [] index % 3 = 2 -> 9000 [] OTHER -> 5000)
           [] kind = "declined" -> IF index % 3 = 0 THEN 900 ELSE NoInt
           [] kind = "no_read" -> IF index % 4 < 2 THEN NoInt ELSE 0
           [] OTHER -> NoInt]

\* The sizes of the run of approved transactions a file can begin with, the
\* start of the first transaction and the pause between two transactions.
ApprovedRuns == {5, 15}
TxnFirst == 40001
TxnPause == 1000

NextTxnStart(rows) ==
  IF rows = <<>> THEN TxnFirst ELSE rows[Len(rows)].end_time + TxnPause

RECURSIVE WithApprovedRun(_, _)
WithApprovedRun(rows, n) ==
  IF n = 0 THEN rows
  ELSE WithApprovedRun(
         Append(rows, TxnRow("approved", Len(rows) + 1, NextTxnStart(rows))),
         n - 1)

\* ORDER BY e.start_time (the start times of a file's transactions differ).
RECURSIVE SortByStartTime(_)
SortByStartTime(rows) ==
  IF rows = <<>> THEN <<>>
  ELSE LET k == CHOOSE i \in 1..Len(rows) :
                  \A j \in 1..Len(rows) : rows[i].start_time <= rows[j].start_time
       IN  <<rows[k]>> \o
           SortByStartTime([ j \in 1..(Len(rows) - 1) |->
                               IF j < k THEN rows[j] ELSE rows[j+1] ])

\* The transactions whose start_time passes the time filter, in start order.
TxnSelect(window_start, window_end) ==
  SortByStartTime(
    SelectSeq(transactions,
              LAMBDA r : time_filter_sql(r.start_time, window_start, window_end)))

\* `row[1] in ("DD", "DN")`
IsDecline(row) == row.response_code \in {"DD", "DN"}

\* `if max_consecutive >= 3`
EnoughDeclinesFour(max_consecutive) == max_consecutive >= 4

EnoughDeclines(max_consecutive) == max_consecutive >= 3

\* The loop of _check_transaction_health: consecutive_declines,
\* max_consecutive and decline_start after the rows.
RECURSIVE DeclineLoop(_, _, _, _, _)
DeclineLoop(rows, i, consecutive_declines, max_consecutive, decline_start) ==
  IF i > Len(rows)
  THEN [max_consecutive |-> max_consecutive, decline_start |-> decline_start]
  ELSE IF IsDecline(rows[i])
       THEN DeclineLoop(rows, i + 1, consecutive_declines + 1,
              IF consecutive_declines + 1 > max_consecutive
              THEN consecutive_declines + 1 ELSE max_consecutive,
              IF consecutive_declines = 0 THEN rows[i].start_time
              ELSE decline_start)
       ELSE DeclineLoop(rows, i + 1, 0, max_consecutive, decline_start)

\* RuleEngine._check_transaction_health
check_transaction_health(window_start, window_end) ==
  LET txn_rows == TxnSelect(window_start, window_end)
      done == DeclineLoop(txn_rows, 1, 0, 0, NoTime)
  IN  IF txn_rows = <<>> THEN <<>>
      ELSE IF EnoughDeclines(done.max_consecutive)
      THEN <<make_issue(ISSUE_TYPES.repeated_decline,
                        <<7, 10>>,
                        IF done.decline_start # NoTime
                        THEN <<done.decline_start>> ELSE <<>>,
                        [text |-> "consecutive declines",
                         count |-> done.max_consecutive])>>
      ELSE <<>>

\* The rows of the query of _check_host_latency before ORDER BY and LIMIT.
SlowRows(window_start, window_end) ==
  SelectSeq(transactions,
            LAMBDA r : /\ r.host_latency_ms > 5000
                       /\ time_filter_sql(r.start_time, window_start, window_end))

\* ORDER BY t.host_latency_ms DESC LIMIT 5: the number of rows returned and
\* the first of them, which is any row of the largest latency.
LatencyQuery(window_start, window_end) ==
  LET rows == SlowRows(window_start, window_end)
  IN  IF rows = <<>> THEN {[count |-> 0, first |-> None]}
      ELSE { [count |-> Min(5, Len(rows)), first |-> rows[i]] :
               i \in { k \in 1..Len(rows) :
                         \A j \in 1..Len(rows) :
                            rows[j].host_latency_ms <= rows[k].host_latency_ms } }

\* RuleEngine._check_host_latency on the rows the query returned.
check_host_latency(slow) ==
  IF slow.count = 0 THEN <<>>
  ELSE <<make_issue(ISSUE_TYPES.host_timeout,
                    <<Min(18000, 10000 + slow.first.host_latency_ms), 20000>>,
                    <<slow.first.start_time>>,
                    [text |-> "transactions with latency > 5s",
                     count |-> slow.count,
                     max_latency |-> slow.first.host_latency_ms])>>

\* MIN_WAIT_MS of _check_card_read_intermittent.
MIN_WAIT_MS == 15000

\* is_noread: not approved, no card type, no host call.
IsNoReadAnyLatency(r) ==
  /\ ~ r.is_approved
  /\ r.card_type = ""

IsNoRead(r) ==
  /\ ~ r.is_approved
  /\ r.card_type = ""
  /\ r.host_latency_ms = NoInt \/ r.host_latency_ms = 0

\* `r[2] is None or r[2] >= MIN_WAIT_MS` (duration_ms is never NULL for a
\* stored transaction).
WaitedLongEnoughStrict(duration_ms) == duration_ms > MIN_WAIT_MS

WaitedLongEnough(duration_ms) == duration_ms >= MIN_WAIT_MS

\* is_real_noread
IsRealNoRead(r) == IsNoRead(r) /\ WaitedLongEnough(r.duration_ms)

\* The burst loop: max_burst after the rows and the final comparison.
RECURSIVE BurstLoop(_, _, _, _)
BurstLoop(rows, i, max_burst, burst_count) ==
  IF i > Len(rows)
  THEN IF burst_count > max_burst THEN burst_count ELSE max_burst
  ELSE IF IsRealNoRead(rows[i])
       THEN BurstLoop(rows, i + 1, max_burst, burst_count + 1)
       ELSE BurstLoop(rows, i + 1,
              IF burst_count > max_burst THEN burst_count ELSE max_burst, 0)

RECURSIVE SumDurations(_, _)
SumDurations(rows, i) ==
  IF i > Len(rows) THEN 0
  ELSE (IF rows[i].duration_ms > 0 THEN rows[i].duration_ms ELSE 0)
         + SumDurations(rows, i + 1)

\* The hour of day of a timestamp of the file, whose clock reads 07:00 at
\* time 0 (EXTRACT(HOUR FROM e.start_time)).
FileStartHour == 7
HourOf(ts) == (FileStartHour + ts \div 3600000) % 24

\* The morning comparison of the chronic branch, over _get_hourly_noread_rate
\* of the whole file: morning_pct > no_read_pct + 5.
MorningSpike(no_read_count, total) ==
  LET morning == SelectSeq(transactions, LAMBDA r : HourOf(r.start_time) \in {7, 8})
      morning_rate == Len(SelectSeq(morning, IsNoRead))
      morning_total == Len(morning)
  IN  /\ morning_total > 0
      /\ morning_rate * 100 * total > (no_read_count * 100 + 5 * total) * morning_total

\* The evidence parts of a card_read_intermittent issue.
CardReadEvidence(kind, rows, no_reads, quick_cancels, max_burst) ==
  [kind |-> kind,
   no_read_count |-> Len(no_reads),
   total |-> Len(rows),
   quick_cancels |-> quick_cancels,
   burst |-> IF kind = "acute" /\ max_burst >= 3 THEN max_burst ELSE 0,
   wait_ms |-> SumDurations(no_reads, 1),
   waits |-> Len(SelectSeq(no_reads, LAMBDA r : r.duration_ms > 0)),
   at_timeout |->
     LET timeout_zone ==
           Len(SelectSeq(no_reads,
                 LAMBDA r : r.duration_ms >= 30000 /\ r.duration_ms <= 55000))
     IN  timeout_zone * 100 > 20 * Len(no_reads),
   morning_spike |-> kind = "chronic" /\ MorningSpike(Len(no_reads), Len(rows))]

\* RuleEngine._check_card_read_intermittent
check_card_read_intermittent(window_start, window_end) ==
  LET rows == TxnSelect(window_start, window_end)
      total == Len(rows)
      no_reads == SelectSeq(rows, IsRealNoRead)
      quick_cancels ==
        Len(SelectSeq(rows, LAMBDA r : IsNoRead(r) /\ ~ WaitedLongEnough(r.duration_ms)))
      no_read_count == Len(no_reads)
      max_burst == BurstLoop(rows, 1, 0, 0)
      time_range == <<no_reads[1].start_time, no_reads[no_read_count].start_time>>
  IN  IF total < 5 THEN <<>>
      ELSE IF no_read_count = 0 THEN <<>>
      ELSE IF max_burst >= 3 \/ no_read_count * 100 >= 30 * total
      THEN <<make_issue(ISSUE_TYPES.card_read_intermittent,
                        <<Min(95, 70 + max_burst * 5), 100>>,
                        time_range,
                        CardReadEvidence("acute", rows, no_reads, quick_cancels, max_burst))>>
      ELSE IF no_read_count * 100 >= 15 * total /\ total >= 10
      THEN <<make_issue(ISSUE_TYPES.card_read_intermittent,
                        <<Min(85 * total, 50 * total + 100 * no_read_count), 100 * total>>,
                        time_range,
                        CardReadEvidence("chronic", rows, no_reads, quick_cancels, max_burst))>>
      ELSE <<>>

\* The most rows stored in a file that has rows in every table.
MaxStoredSteps == 5

\* The most health_check events of one file.
MaxHealthRows == 3

\* The health checks a file can hold: check_type, http_status and success,
\* the start_time of the first and the distance between two of them.
CheckTypes == {"ExchangeInfo", "MonitoringStatus"}
HttpStatuses == {"", "500", "Socket_10061"}
HealthFirst == 45001
HealthDelta == 30000

\* The failed health checks whose start_time passes the time filter, in
\* start order.
FailedChecks(window_start, window_end) ==
  SortByStartTime(
    SelectSeq(health_rows,
              LAMBDA r : /\ ~ r.success
                         /\ time_filter_sql(r.start_time, window_start, window_end)))

\* `r[2] and r[2].startswith("Socket_")` for the statuses of the model.
IsSocketError(http_status) == http_status \in {"Socket_10061", "Socket_10060", "Socket_"}

\* RuleEngine._check_servereps_errors
check_servereps_errors(window_start, window_end) ==
  LET rows == FailedChecks(window_start, window_end)
      http_500s == SelectSeq(rows, LAMBDA r : r.http_status = "500")
      socket_errors == SelectSeq(rows, LAMBDA r : IsSocketError(r.http_status))
  IN  (IF http_500s = <<>> THEN <<>>
       ELSE <<make_issue(ISSUE_TYPES.servereps_500,
                         <<95, 100>>,
                         <<http_500s[1].start_time, http_500s[Len(http_500s)].start_time>>,
                         [text |-> "HTTP 500 errors across",
                          count |-> Len(http_500s),
                          check_types |-> { http_500s[i].check_type :
                                              i \in 1..Len(http_500s) }])>>)
      \o
      (IF socket_errors = <<>> THEN <<>>
       ELSE <<make_issue(ISSUE_TYPES.servereps_socket_error,
                         <<9, 10>>,
                         <<socket_errors[1].start_time,
                           socket_errors[Len(socket_errors)].start_time>>,
                         [text |-> "socket errors",
                          count |-> Len(socket_errors),
                          error_codes |-> { socket_errors[i].http_status :
                                              i \in 1..Len(socket_errors) }])>>)

\* RuleEngine.analyze_file
analyze_file(window_start, window_end, p2p_rows, slow, cascade_rows) ==
  check_scat_dead(scat_timeline, window_start, window_end)
    \o check_serial_failures(window_start, window_end)
    \o check_servereps_errors(window_start, window_end)
    \o check_p2p_mismatch(p2p_rows)
    \o check_transaction_health(window_start, window_end)
    \o check_host_latency(slow)
    \o check_error_cascades(cascade_rows)
    \o check_card_read_intermittent(window_start, window_end)

RuleInit ==
  /\ alive_entries = <<>>
  /\ scat_timeline = {}
  /\ window = <<NoTime, NoTime>>
  /\ issues = <<>>
  /\ rpc = "segmenting"
  /\ error_cascades = {}
  /\ log_entries = <<>>
  /\ transactions = <<>>
  /\ approved_run = 0
  /\ health_rows = <<>>

(***************************************************************************)
(* Part 7: MetadataExtractor (ingestion/metadata_extractor.py) and the     *)
(* identity merge of _ingest_file                                          *)
(***************************************************************************)

\* The most raw lines of a file.
MaxRawLines == 5

\* MetadataExtractor.__init__: the default max_entries, and a small value
\* an extractor can be built with.
DefaultMaxEntries == 5000
SmallMaxEntries == 2

\* A text is the captures of the patterns of lines 18-63 in it; "" stands
\* for a pattern that does not match.
NoCaptures ==
  [company_aa |-> "", company_bracket |-> "", company_json |-> "",
   store_ab |-> "", store_bracket |-> "", store_receipt |-> "",
   store_json |-> "", mid |-> "",
   mtx_pos_ver |-> "", mtx_pos_load |-> "", mtx_eps_ver |-> "",
   mtx_eps_load |-> "", seccode_ver |-> "", seccode_load |-> "",
   pos_ver |-> "", lss_pos_ver |-> "",
   lss_model |-> "", pinpad_model |-> "", lss_serial |-> "",
   pinpad_serial |-> "", firmware_ver |-> "", lss_os_ver |-> "",
   os_release |-> "", kernel_ver |-> "",
   end_order |-> "", leave_terminal |-> "", make_faster |-> "",
   c30_delay |-> "", uisoio |-> "", timeout |-> "",
   server_url |-> "", lss_ip |-> "", ip_addr |-> ""]

\* The lines of the model.  `parsed` tells whether LogParser.parse_line
\* makes a LogEntry of the raw line (a blank or unrecognized line is read by
\* extract_from_file and dropped by the parser).  The message of an entry
\* is right-stripped, so only a raw line gives UIsoio a blank capture.
SendLine ==
  [parsed |-> TRUE,
   text |-> [NoCaptures EXCEPT !.company_aa = "145714", !.store_ab = "12",
               !.server_url = "https://trn1.example/eps",
               !.end_order = "500", !.timeout = "30"]]

ReceiptLine ==
  [parsed |-> TRUE,
   text |-> [NoCaptures EXCEPT !.company_bracket = "999", !.company_json = "555",
               !.store_receipt = "7",
               !.server_url = "https://svc2.example/eps",
               !.end_order = "900", !.leave_terminal = "Y",
               !.lss_os_ver = " ", !.os_release = "6.1",
               !.kernel_ver = "4.9"]]

StatusUploadLine ==
  [parsed |-> FALSE,
   text |-> [NoCaptures EXCEPT !.lss_model = "No PIN Pad", !.pinpad_model = "Lane/7000",
               !.lss_serial = "SN123", !.lss_ip = "10.0.0.5",
               !.lss_pos_ver = "8.2", !.lss_os_ver = "6.1",
               !.uisoio = " ",
               !.server_url = "https://trn3.example/eps"]]

VersionLine ==
  [parsed |-> TRUE,
   text |-> [NoCaptures EXCEPT !.mid = "M77", !.mtx_pos_load = "1.2.3.4",
               !.mtx_eps_ver = "2.0", !.seccode_load = "3.1.0",
               !.pos_ver = "8.1", !.pinpad_model = "Lane/5000",
               !.pinpad_serial = "SN999", !.firmware_ver = "1.0a",
               !.os_release = "5.0", !.ip_addr = "10.0.0.9",
               !.server_url = "https://svc4.example/eps",
               !.make_faster = "N", !.c30_delay = "30"]]

ConfigLine ==
  [parsed |-> TRUE,
   text |-> [NoCaptures EXCEPT !.mtx_pos_ver = "9.9", !.kernel_ver = "5.1",
               !.lss_model = " Lane/3000 ", !.store_json = "3",
               !.uisoio = "on", !.timeout = "60",
               !.server_url = "https://trn5.example/eps"]]

IdentityLines == {SendLine, ReceiptLine, StatusUploadLine, VersionLine, ConfigLine}

\* str.strip() on the captures of the model.
StripValue(s) ==
  CASE s = " " -> ""
    [] s = " Lane/3000 " -> "Lane/3000"
    [] OTHER -> s

\* `A.search(text) or B.search(text)`: the capture of the first pattern
\* that matches.
FirstMatch(captures) ==
  IF \E i \in 1..Len(captures) : captures[i] # ""
  THEN captures[CHOOSE i \in 1..Len(captures) :
                  /\ captures[i] # ""
                  /\ \A j \in 1..(i-1) : captures[j] = ""]
  ELSE ""

\* ingestion/models.py: FileIdentity() (sha256_hash and upload_source are
\* not touched by the patterns).
FileIdentity ==
  [company_id |-> "", store_id |-> "", mid |-> "",
   mtx_pos_version |-> "", mtx_eps_version |-> "", seccode_version |-> "",
   pos_version |-> "",
   pinpad_model |-> "", pinpad_serial |-> "", pinpad_firmware |-> "",
   pinpad_os |-> "", pinpad_kernel |-> "",
   config |-> <<>>,
   server_eps_hosts |-> <<>>,
   ip_address |-> ""]

\* `if not identity.<field>`: a blank field takes the value found, if any.
FillBlank(old, found) == IF old = "" /\ found # "" THEN found ELSE old

\* lines 162-167: the model is taken from the first pattern that matches,
\* stripped, unless it is empty or names no PIN pad.
ModelFound(text) ==
  LET val == StripValue(FirstMatch(<<text.lss_model, text.pinpad_model>>))
  IN  IF val # "" /\ val # "No PIN Pad" THEN val ELSE ""

\* lines 198-215: the configuration keys and their patterns.
ConfigKeys ==
  {"EndOrderIntervalMsg", "LeaveTerminalActive", "MakeMXfaster", "C30Delay",
   "UIsoio", "timeout"}

ConfigCapture(text, key) ==
  CASE key = "EndOrderIntervalMsg" -> text.end_order
    [] key = "LeaveTerminalActive" -> text.leave_terminal
    [] key = "MakeMXfaster" -> text.make_faster
    [] key = "C30Delay" -> text.c30_delay
    [] key = "UIsoio" -> text.uisoio
    [] key = "timeout" -> text.timeout

\* A key already present keeps its value; a key whose pattern matches is
\* added (UIsoio stripped).
ConfigFound(config, text) ==
  LET matched == { k \in ConfigKeys : ConfigCapture(text, k) # "" }
  IN  [ k \in (DOMAIN config) \cup matched |->
          IF k \in DOMAIN config THEN config[k]
          ELSE IF k = "UIsoio" THEN StripValue(text.uisoio)
          ELSE ConfigCapture(text, k) ]

\* lines 218-229: a URL is appended while the list holds fewer than 4 and
\* does not hold it yet.
HostsFoundFive(hosts, url) ==
  IF /\ Len(hosts) < 5
     /\ url # ""
     /\ \A i \in 1..Len(hosts) : hosts[i] # url
  THEN Append(hosts, url) ELSE hosts

HostsFound(hosts, url) ==
  IF /\ Len(hosts) < 4
     /\ url # ""
     /\ \A i \in 1..Len(hosts) : hosts[i] # url
  THEN Append(hosts, url) ELSE hosts

\* A scalar field that is set keeps its value.
ScalarFound(old, found) == FillBlank(old, found)

\* MetadataExtractor._match_patterns
match_patterns(text, id) ==
  [company_id |->
     ScalarFound(id.company_id,
       FirstMatch(<<text.company_aa, text.company_bracket, text.company_json>>)),
   store_id |->
     ScalarFound(id.store_id,
       FirstMatch(<<text.store_ab, text.store_bracket, text.store_receipt,
                    text.store_json>>)),
   mid |-> ScalarFound(id.mid, text.mid),
   mtx_pos_version |->
     ScalarFound(id.mtx_pos_version,
       FirstMatch(<<text.mtx_pos_ver, text.mtx_pos_load>>)),
   mtx_eps_version |->
     ScalarFound(id.mtx_eps_version,
       FirstMatch(<<text.mtx_eps_ver, text.mtx_eps_load>>)),
   seccode_version |->
     ScalarFound(id.seccode_version,
       FirstMatch(<<text.seccode_ver, text.seccode_load>>)),
   pos_version |->
     ScalarFound(ScalarFound(id.pos_version, text.pos_ver), text.lss_pos_ver),
   pinpad_model |-> ScalarFound(id.pinpad_model, ModelFound(text)),
   pinpad_serial |->
     ScalarFound(id.pinpad_serial,
       StripValue(FirstMatch(<<text.lss_serial, text.pinpad_serial>>))),
   pinpad_firmware |-> ScalarFound(id.pinpad_firmware, text.firmware_ver),
   pinpad_os |->
     ScalarFound(id.pinpad_os,
       StripValue(FirstMatch(<<text.lss_os_ver, text.os_release>>))),
   pinpad_kernel |-> ScalarFound(id.pinpad_kernel, StripValue(text.kernel_ver)),
   config |-> ConfigFound(id.config, text),
   server_eps_hosts |-> HostsFound(id.server_eps_hosts, text.server_url),
   ip_address |->
     ScalarFound(id.ip_address, FirstMatch(<<text.lss_ip, text.ip_addr>>))]

\* The entries the parser makes of the raw lines (all_entries).
AllEntries(lines) == SelectSeq(lines, LAMBDA l : l.parsed)

\* The fields the merge of _ingest_file copies when blank.
MergedFields ==
  {"company_id", "store_id", "mid", "mtx_pos_version", "mtx_eps_version",
   "seccode_version", "pos_version", "pinpad_model", "pinpad_serial",
   "pinpad_firmware"}

ScalarFields == MergedFields \cup {"pinpad_os", "pinpad_kernel", "ip_address"}

\* _ingest_file, lines 268-276: blank merged fields are taken from
\* identity2, and the config keys identity lacks.
MergeIdentity(id, id2) ==
  [ f \in DOMAIN id |->
      IF f \in MergedFields THEN FillBlank(id[f], id2[f])
      ELSE IF f = "config"
      THEN [ k \in (DOMAIN id.config) \cup (DOMAIN id2.config) |->
               IF k \in DOMAIN id.config THEN id.config[k] ELSE id2.config[k] ]
      ELSE id[f] ]

IdentityInit ==
  /\ raw_lines = <<>>
  /\ max_entries = 0
  /\ identity = FileIdentity
  /\ lines_scanned = 0
  /\ identity2 = FileIdentity
  /\ scan_count = 0
  /\ ipc = "new"

(***************************************************************************)
(* Part 8: LogParser (ingestion/parser.py) under FileReader.parse_lines    *)
(* (ingestion/file_reader.py)                                              *)
(*                                                                         *)
(* A raw line is represented by the pieces the two patterns look at, in    *)
(* the order they stand on the line: the leading whitespace, the timestamp *)
(* text as its seven digit groups (mm dd yy HH MM SS mmm, <<>> when the    *)
(* line has none), the token after it, whether a space follows the token,  *)
(* and the rest of the line.  The rest is either the text of a repeat      *)
(* marker (above = <<N, M>>, the digits of the two counts, N = "" when the *)
(* count is absent) or plain text, split into its leading whitespace, its  *)
(* core and its trailing whitespace.                                       *)
(***************************************************************************)
MaxParseLines == 2

NoStamp == <<>>

RawLine(lead, stamp, token, sep, above, pre, core, trail) ==
  [lead |-> lead, stamp |-> stamp, token |-> token, sep |-> sep,
   above |-> above, pre |-> pre, core |-> core, trail |-> trail]

NoAbove == <<>>

\* parser.py, line 14: the categories LINE_PATTERN accepts.
Categories ==
  {"TCP/IP", "DLL-IN", "DLL-EX", "SERIAL", "SVREPS", "METRIC", "MTXPOS"}

\* int() of the digit strings that occur in the input.
IntOf(digits) ==
  CASE digits = "0" -> 0
    [] digits = "1" -> 1
    [] digits = "2" -> 2
    [] digits = "02" -> 2
    [] digits = "5" -> 5
    [] digits = "609" -> 609

\* REPEAT_PATTERN.match(raw), lines 22-24: at least one whitespace
\* character, then the marker text up to the end of the line.
REPEAT_PATTERN(raw) ==
  /\ raw.lead # ""
  /\ raw.stamp = NoStamp
  /\ raw.token = ""
  /\ ~raw.sep
  /\ raw.above # NoAbove
  /\ raw.trail = ""

\* LINE_PATTERN.match(raw), lines 12-17: the timestamp text at the start of
\* the line, one space, a category, one space, anything.
LINE_PATTERN(raw) ==
  /\ raw.lead = ""
  /\ raw.stamp # NoStamp
  /\ raw.token \in Categories
  /\ raw.sep

\* The text a marker stands for inside a message.
AboveText(above) ==
  "(Above " \o (IF above[1] = "" THEN "" ELSE above[1] \o " ")
     \o "Lines Repeated " \o above[2] \o " Times)"

\* m.group(3).rstrip(), line 62: the message without its trailing
\* whitespace; whitespace alone is all trailing.
MessageRstrip(raw) ==
  IF raw.above # NoAbove THEN raw.pre \o AboveText(raw.above)
  ELSE IF raw.core = "" THEN ""
  ELSE raw.pre \o raw.core

IsLeapYear(y) == (y % 4 = 0 /\ y % 100 # 0) \/ y % 400 = 0

DaysInMonth(y, m) ==
  IF m = 2 THEN (IF IsLeapYear(y) THEN 29 ELSE 28)
  ELSE IF m \in {4, 6, 9, 11} THEN 30
  ELSE 31

\* %y of TIMESTAMP_FORMAT: 69-99 are 19xx, 00-68 are 20xx.
YearOf(yy) == IF yy >= 69 THEN 1900 + yy ELSE 2000 + yy

\* Whether datetime.strptime(text, TIMESTAMP_FORMAT) accepts the text.
StrptimeAccepts(stamp) ==
  /\ stamp[1] \in 1..12
  /\ stamp[2] \in 1..DaysInMonth(YearOf(stamp[3]), stamp[1])
  /\ stamp[4] \in 0..23
  /\ stamp[5] \in 0..59
  /\ stamp[6] \in 0..59

\* The datetime strptime returns; %f pads the three digits to microseconds.
strptime(stamp) ==
  [year |-> YearOf(stamp[3]), month |-> stamp[1], day |-> stamp[2],
   hour |-> stamp[4], minute |-> stamp[5], second |-> stamp[6],
   microsecond |-> stamp[7] * 1000]

ParseReturned(value) == [outcome |-> "returned", value |-> value]

\* An exception leaving parse_line.
ParseRaised(exception) == [outcome |-> "raised", value |-> [kind |-> exception]]

NoneResult == [kind |-> "None"]

\* LogParser.parse_line, lines 37-66.
parse_line(raw, line_number) ==
  IF REPEAT_PATTERN(raw)
  THEN ParseReturned([kind |-> "RepeatDirective",
                 line_count |-> IF raw.above[1] # "" THEN IntOf(raw.above[1])
                                ELSE 1,
                 repeat_count |-> IntOf(raw.above[2]),
                 line_number |-> line_number])
  ELSE IF LINE_PATTERN(raw)
  THEN IF StrptimeAccepts(raw.stamp)
       THEN ParseReturned([kind |-> "LogEntry",
                      line_number |-> line_number,
                      timestamp |-> strptime(raw.stamp),
                      category |-> raw.token,
                      message |-> MessageRstrip(raw)])
       ELSE ParseRaised("ValueError")
  ELSE ParseReturned(NoneResult)

\* Timestamp texts: three real ones and five strptime rejects.
StampA == <<1, 2, 24, 10, 0, 0, 0>>
StampLeap == <<2, 29, 24, 23, 59, 59, 999>>
StampOld == <<12, 31, 99, 0, 0, 0, 1>>
StampMonth13 == <<13, 2, 24, 10, 0, 0, 0>>
StampHour25 == <<1, 2, 24, 25, 0, 0, 0>>
StampFeb30 == <<2, 30, 24, 10, 0, 0, 0>>
StampFeb29 == <<2, 29, 23, 10, 0, 0, 0>>
StampSecond60 == <<1, 2, 24, 10, 0, 60, 0>>

Marker(lead, above, trail) ==
  RawLine(lead, NoStamp, "", FALSE, above, "", "", trail)

Standard(stamp, token, pre, core, trail) ==
  RawLine("", stamp, token, TRUE, NoAbove, pre, core, trail)

\* The raw lines the file is drawn from.
ParserLines ==
  { Marker("      ", <<"", "609">>, ""),
    Marker("      ", <<"2", "1">>, ""),
    Marker(" ", <<"0", "5">>, ""),
    Marker(" ", <<"02", "2">>, ""),
    Marker("", <<"", "2">>, ""),
    Marker(" ", <<"2", "5">>, " "),
    Standard(StampA, "SERIAL", "", "Send ENQ", ""),
    Standard(StampA, "SERIAL", "", "Send ENQ", "  "),
    Standard(StampLeap, "SVREPS", " ", "lead kept", " "),
    Standard(StampOld, "TCP/IP", " ", "", ""),
    Standard(StampA, "METRIC", "", "", ""),
    Standard(StampA, "FOO", "", "text", ""),
    RawLine("", StampA, "SERIAL", FALSE, NoAbove, "", "", ""),
    RawLine(" ", StampA, "SERIAL", TRUE, NoAbove, "", "text", ""),
    RawLine("", StampA, "DLL-EX", TRUE, <<"", "2">>, " ", "", ""),
    RawLine("", NoStamp, "", FALSE, NoAbove, "", "", ""),
    RawLine("  ", NoStamp, "", FALSE, NoAbove, "", "continuation", ""),
    Standard(StampMonth13, "SERIAL", "", "Send ENQ", ""),
    Standard(StampHour25, "SERIAL", "", "Send ENQ", ""),
    Standard(StampFeb30, "DLL-IN", "", "text", ""),
    Standard(StampFeb29, "MTXPOS", "", "text", ""),
    Standard(StampSecond60, "SERIAL", "", "text", "") }

NotParsed == [outcome |-> "none", value |-> NoneResult]

ParserInit ==
  /\ praw = RawLine("", NoStamp, "", FALSE, NoAbove, "", "", "")
  /\ presult = NotParsed
  /\ parsed = <<>>
  /\ plines = 0
  /\ ppc = "reading"

(***************************************************************************)
(* Part 9: two pipeline instances, one per file                            *)
(*                                                                         *)
(* An instance is what _ingest_file builds for its file: a RepeatExpander, *)
(* a TransactionSegmenter, a SCATStateMachine, an ErrorCascadeDetector and *)
(* a HealthSegmenter, each with the attributes its __init__ sets, and the  *)
(* records the instance has emitted.  A message carries what the patterns  *)
(* of each of the four segmenters find in it.                              *)
(***************************************************************************)
\* Most parsed items fed to one instance.
MaxPipelineItems == 2

Instances == {1, 2}

PipelineMessage(txn, scat, cascade, health) ==
  [txn |-> txn, scat |-> scat, cascade |-> cascade, health |-> health]

ScatNoise == ScatMsg("", "", NoInt, "")

\* The <<category, message>> pairs the lines of the two files are drawn
\* from: the two order markers, an error line, a liveness line and the
\* start of an ExchangeInfo cycle.
PipelineLines ==
  { <<"DLL-EX", PipelineMessage(MsgBeginOrder, ScatNoise, MsgNoise, MsgHealthNoise)>>,
    <<"DLL-EX", PipelineMessage(MsgEndOrder, ScatNoise, MsgNoise, MsgHealthNoise)>>,
    <<"SERIAL", PipelineMessage(NoMsg, ScatNoise, MsgErrorA, MsgHealthNoise)>>,
    <<"DLL-EX", PipelineMessage(NoMsg, MsgAlive(0), MsgNoise, MsgHealthNoise)>>,
    <<"SVREPS", PipelineMessage(NoMsg, ScatNoise, MsgNoise, MsgXiSend)>> }

\* The parsed items input line `line` of a file can be: an entry of one of
\* the lines, or a repeat marker.
PipelineItems(line) ==
  { ExpLogEntry(line, TimeOf(line), l[1], l[2], FALSE, 1) : l \in PipelineLines }
  \cup { RepeatDirective(1, 2, line) }

\* The entry as one segmenter's patterns see it.
Seen(e, by) == LogEntry(e.line_number, e.timestamp, e.category, e.message[by])

\* RepeatExpander.__init__, TransactionSegmenter.__init__,
\* SCATStateMachine.__init__, ErrorCascadeDetector.__init__ and the local
\* of HealthSegmenter.process_entries, with nothing emitted yet.
NewPipeline ==
  [buffer |-> <<>>,
   state |-> IDLE, current |-> None, entries_buffer |-> <<>>,
   current_state |-> "StateNone", alive_status |-> 9,
   state_history |-> <<>>, alive_history |-> <<>>,
   cascade_current |-> None, last_error_time |-> NoTime,
   health_current |-> None,
   transactions |-> <<>>, cascades |-> <<>>, health_checks |-> <<>>,
   exhausted |-> FALSE]

\* Mutant of BufferOf: the deque is an attribute of the class, so that every
\* expander reads the buffer of the first one.
BufferOfClass(all, i) == all[1].buffer

\* self._buffer of the expander of instance i.
BufferOf(all, i) == all[i].buffer

\* RepeatExpander.process for one item, lines 27-47: the entries yielded.
ExpanderYield(buf, it) ==
  IF IsDirective(it)
  THEN LET source_lines == SourceLines(buf, it.line_count) IN
       IF Len(source_lines) = 0 THEN <<>>
       ELSE Replay(source_lines, it.repeat_count)
  ELSE <<it>>

\* TransactionSegmenter._process_entry and the yield of its result, lines
\* 121-125 and 135-226.
SegmenterStep(p, entry0) ==
  LET e == Seen(entry0, "txn")
      msg == e.message
  IN  IF msg.begin_order
      THEN [p EXCEPT
              !.transactions =
                 IF p.current # None /\ p.current.start_time # NoTime
                 THEN Append(@, FinalizeCurrent(p.current, e)) ELSE @,
              !.current = StartNew(e),
              !.state = IN_PROGRESS,
              !.entries_buffer = <<e>>]
      ELSE LET soft == SoftStartApplies(p.state, e)
               cur0 == IF soft THEN StartNew(e) ELSE p.current
               st0 == IF soft THEN IN_PROGRESS ELSE p.state
               buf0 == IF soft THEN <<e>> ELSE p.entries_buffer
           IN  IF cur0 = None
               THEN [p EXCEPT !.current = cur0, !.state = st0,
                              !.entries_buffer = buf0]
               ELSE LET txn == Scanned(cur0, e) IN
                    IF msg.end_order \/ ResetClearEnds(txn, msg)
                    THEN [p EXCEPT
                            !.transactions = Append(@, FinalizeCurrent(txn, e)),
                            !.current = None,
                            !.state = IDLE,
                            !.entries_buffer = <<>>]
                    ELSE [p EXCEPT
                            !.current = TrackScatState(CountSerialError(txn, msg), msg),
                            !.state = HostExchangeState(st0, e),
                            !.entries_buffer = Append(buf0, e)]

\* SCATStateMachine.process_entry, lines 39-62.
ScatStep(p, entry0) ==
  LET e == Seen(entry0, "scat")
      msg == e.message
      named == IF msg.state_new # ""
               THEN [p EXCEPT !.current_state = msg.state_new,
                              !.state_history = Append(@, SCATStateChange(e))]
               ELSE p
  IN  IF msg.alive # NoInt /\ AliveChanged(msg.alive, p.alive_status)
      THEN [named EXCEPT !.alive_status = msg.alive,
                         !.alive_history = Append(@, AliveRecord(e))]
      ELSE named

\* One iteration of ErrorCascadeDetector.process_entries, lines 31-93.
CascadeStep(p, entry0) ==
  LET e == Seen(entry0, "cascade") IN
  IF is_error(e.message)
  THEN IF p.cascade_current = None
       THEN [p EXCEPT !.cascade_current = NewCascade(e),
                      !.last_error_time = e.timestamp]
       ELSE IF p.last_error_time # NoTime
               /\ WithinGap(e.timestamp - p.last_error_time)
       THEN [p EXCEPT !.cascade_current = ContinueCascade(@, e),
                      !.last_error_time = e.timestamp]
       ELSE [p EXCEPT !.cascades = Append(@, Finalize(p.cascade_current)),
                      !.cascade_current = NewCascadeAfterSplit(e),
                      !.last_error_time = e.timestamp]
  ELSE IF /\ p.cascade_current # None
          /\ p.last_error_time # NoTime
          /\ BeyondGap(e.timestamp - p.last_error_time)
       THEN [p EXCEPT
               !.cascades = Append(@, Recovered(Finalize(p.cascade_current), e)),
               !.cascade_current = None,
               !.last_error_time = NoTime]
       ELSE p

\* One iteration of HealthSegmenter.process_entries, lines 51-128.
HealthStep(p, entry0) ==
  LET e == Seen(entry0, "health")
      msg == e.message
  IN  IF e.category # "SVREPS" THEN p
      ELSE IF msg.send_host # ""
      THEN [p EXCEPT
              !.health_checks = IF p.health_current # None
                                THEN Append(@, p.health_current) ELSE @,
              !.health_current = ExchangeInfoStart(e)]
      ELSE IF msg.result_code # "" /\ p.health_current # None
              /\ p.health_current.check_type = "ExchangeInfo"
      THEN [p EXCEPT
              !.health_checks = Append(@, ExchangeInfoResult(p.health_current, e)),
              !.health_current = None]
      ELSE IF msg.mon_code # ""
      THEN [p EXCEPT !.health_checks = Append(@, MonitoringRecord(e))]
      ELSE IF msg.login # ""
      THEN [p EXCEPT !.health_checks = Append(@, LoginRecord(e))]
      ELSE p

\* The four segmenters of the instance consume the entries the expander
\* yielded, in order.
RECURSIVE Segment(_, _)
Segment(p, batch) ==
  IF batch = <<>> THEN p
  ELSE Segment(HealthStep(CascadeStep(ScatStep(SegmenterStep(p, Head(batch)),
                                               Head(batch)),
                                      Head(batch)),
                          Head(batch)),
               Tail(batch))

\* One parsed item goes through the instance whose expander buffer is buf.
PipelineStep(p, buf, it) ==
  LET fed == Segment([p EXCEPT !.buffer = buf], ExpanderYield(buf, it)) IN
  IF IsDirective(it) THEN fed
  ELSE [fed EXCEPT !.buffer = DequeAppend(buf, it)]

\* The end of the file: the flushes of transaction_segmenter.py lines
\* 126-133, error_cascade.py lines 95-98 and health_segmenter.py lines
\* 130-132.
PipelineFlush(p) ==
  [p EXCEPT
     !.transactions =
        IF p.current # None /\ p.current.start_time # NoTime
        THEN Append(@, FinalizeCurrent(p.current, FlushBoundary(p.entries_buffer)))
        ELSE @,
     !.current = IF p.current # None /\ p.current.start_time # NoTime
                 THEN None ELSE @,
     !.state = IF p.current # None /\ p.current.start_time # NoTime
               THEN IDLE ELSE @,
     !.cascades = IF p.cascade_current # None
                  THEN Append(@, Finalize(p.cascade_current)) ELSE @,
     !.health_checks = IF p.health_current # None
                       THEN Append(@, p.health_current) ELSE @,
     !.exhausted = TRUE]

PipelineInit ==
  /\ pipelines = [i \in Instances |-> NewPipeline]
  /\ files = [i \in Instances |-> <<>>]

(***************************************************************************)
(* Actions                                                                 *)
(***************************************************************************)
Init ==
  /\ state = IDLE
  /\ current = None
  /\ entries_buffer = <<>>
  /\ emitted = <<>>
  /\ entry = None
  /\ nread = 0
  /\ pc = "reading"
  /\ scen = 0
  /\ ackSeen = 0
  /\ started = 0
  /\ ExpanderInit
  /\ ScatInit
  /\ CascadeInit
  /\ HealthInit
  /\ RuleInit
  /\ IdentityInit
  /\ ParserInit
  /\ PipelineInit

\* One iteration of the loop of process_entries: _process_entry(e) and the
\* yield of its result.
ProcessEntry(e) ==
  LET msg == e.message IN
  /\ pc = "reading"
  /\ entry' = e
  /\ nread' = nread + 1
  /\ pc' = pc
  /\ IF msg.begin_order
     THEN \* lines 139-147
          /\ emitted' = IF current # None /\ current.start_time # NoTime
                        THEN Append(emitted, FinalizeCurrent(current, e))
                        ELSE emitted
          /\ current' = StartNew(e)
          /\ state' = IN_PROGRESS
          /\ entries_buffer' = <<e>>
     ELSE LET soft == SoftStartApplies(state, e)
              cur0 == IF soft THEN StartNew(e) ELSE current
              st0 == IF soft THEN IN_PROGRESS ELSE state
              buf0 == IF soft THEN <<e>> ELSE entries_buffer
          IN  IF cur0 = None
              THEN \* lines 155-156
                   /\ current' = cur0
                   /\ state' = st0
                   /\ entries_buffer' = buf0
                   /\ emitted' = emitted
              ELSE LET txn == Scanned(cur0, e) IN
                   IF msg.end_order \/ ResetClearEnds(txn, msg)
                   THEN \* lines 195-213
                        /\ emitted' = Append(emitted, FinalizeCurrent(txn, e))
                        /\ current' = None
                        /\ state' = IDLE
                        /\ entries_buffer' = <<>>
                   ELSE \* lines 215-224
                        /\ current' = TrackScatState(CountSerialError(txn, msg), msg)
                        /\ state' = HostExchangeState(st0, e)
                        /\ entries_buffer' = Append(buf0, e)
                        /\ emitted' = emitted
  \* monitors: progress through the scenario, ACK failures since the start
  /\ scen' = IF scen >= 0 /\ scen < Len(Scenario) /\ nread = scen
                /\ <<e.category, e.message>> = Scenario[scen + 1]
             THEN scen + 1 ELSE -1
  /\ ackSeen' = IF msg.begin_order \/ (state = IDLE /\ current' # None) THEN 0
                ELSE IF current # None /\ msg.send_ack_fail
                        /\ Len(emitted') = Len(emitted)
                     THEN ackSeen + 1
                ELSE ackSeen
  \* monitor: the calls of _start_new so far
  /\ started' = IF msg.begin_order \/ SoftStartApplies(state, e)
                 THEN started + 1 ELSE started
  /\ UNCHANGED notTxnVars

\* The consumer pulls the next entry of the stream.
Feed ==
  /\ nread < MaxEntries
  /\ \E l \in Lines :
        ProcessEntry(LogEntry(nread + 1, TimeOf(nread + 1), l[1], l[2]))

\* process_entries, lines 126-133: the stream is exhausted.
Flush ==
  /\ pc = "reading"
  /\ pc' = "done"
  /\ IF current # None /\ current.start_time # NoTime
     THEN /\ emitted' = Append(emitted,
                          FinalizeCurrent(current, FlushBoundary(entries_buffer)))
          /\ current' = None
          /\ state' = IDLE
     ELSE UNCHANGED <<emitted, current, state>>
  /\ UNCHANGED <<entries_buffer, entry, nread, scen, ackSeen, started>>
  /\ UNCHANGED notTxnVars

Next == Feed \/ Flush

Spec == Init /\ [][Next]_vars

(***************************************************************************)
(* Step predicates used by the properties                                  *)
(***************************************************************************)
\* The step consumed one entry of the stream (it is entry').
Fed == nread' = nread + 1

\* The step consumed an entry while a transaction was open, and the entry
\* is not a BeginOrder (which would replace the transaction).
InTxn == Fed /\ current # None /\ ~ entry'.message.begin_order

\* The transaction that was open before the step, as the step left it: still
\* open, or just emitted.
After == IF current' # None THEN current' ELSE emitted'[Len(emitted')]

\* The step emitted a transaction.
Emits == Len(emitted') = Len(emitted) + 1

(***************************************************************************)
(* C1: the four entries of the end-to-end scenario (BeginOrder, SE_SEND    *)
(* with BnDB Da5000 Bp1234 BfE, SE_RECV(1.743 secs) Af00, EndOrder) yield  *)
(* exactly one transaction, with card_type Debit, amount_cents 5000,       *)
(* pan_last4 1234, entry_method E, response_code AA, is_approved true and  *)
(* host_latency_ms 1743.                                                   *)
(***************************************************************************)
C1_EndToEndScenario ==
  scen = Len(Scenario) =>
    /\ Len(emitted) = 1
    /\ current = None
    /\ emitted[1].card_type = "Debit"
    /\ emitted[1].amount_cents = 5000
    /\ emitted[1].pan_last4 = "1234"
    /\ emitted[1].entry_method = "E"
    /\ emitted[1].response_code = "AA"
    /\ is_approved(emitted[1])
    /\ emitted[1].host_latency_ms = 1743

C1_Witness == scen = Len(Scenario) /\ pc = "done"

(***************************************************************************)
(* C2: transaction fields other than cvm_result, host_url, sequence_number *)
(* and host_latency_ms are write-once: once set to a non-empty value, no   *)
(* later entry of the same transaction changes them.                       *)
(***************************************************************************)
WriteOnceFields ==
  { "entry_method", "aid", "app_label", "tvr", "tac_sequence", "card_type",
    "response_code", "authorization_number", "host_response_code",
    "pan_last4" }

C2_WriteOnce ==
  [][ InTxn =>
        /\ \A f \in WriteOnceFields :
              current[f] # "" => After[f] = current[f]
        /\ current.amount_cents # 0 => After.amount_cents = current.amount_cents
        /\ current.cashback_cents # 0 =>
              After.cashback_cents = current.cashback_cents ]_vars

(***************************************************************************)
(* C3: card_type is decided by whichever of its two writers runs first: a  *)
(* card type already set is changed neither by a later TenderType line nor *)
(* by a later SE_SEND payload code of the same transaction.                *)
(***************************************************************************)
C3_CardTypeFirstWriter ==
  [][ ( /\ InTxn
        /\ current.card_type # ""
        /\ \/ entry'.message.tender_type # <<>>
           \/ entry'.message.send_card_type_code # "" )
      => After.card_type = current.card_type ]_vars

(***************************************************************************)
(* C4: a BeginOrder entry always starts a new transaction whose start      *)
(* line/time are the entry's; a transaction already open is first closed   *)
(* with end line/time equal to the BeginOrder entry's and emitted, so      *)
(* every transaction already emitted started no later than the one in      *)
(* flight, and emissions are in start order.                               *)
(***************************************************************************)
StartOrder ==
  /\ \A i \in 1..Len(emitted) : \A j \in 1..Len(emitted) :
        i < j => emitted[i].start_line <= emitted[j].start_line
  /\ current # None =>
        \A i \in 1..Len(emitted) : emitted[i].start_line <= current.start_line

BeginOrderStep ==
  (Fed /\ entry'.message.begin_order) =>
     /\ current' # None
     /\ current'.start_line = entry'.line_number
     /\ current'.start_time = entry'.timestamp
     /\ IF current # None
        THEN emitted' = Append(emitted,
                          [current EXCEPT !.end_line = entry'.line_number,
                                          !.end_time = entry'.timestamp])
        ELSE emitted' = emitted

C4_BeginOrderForcesClose == [] StartOrder /\ [][BeginOrderStep]_vars

C4_Witness ==
  /\ entry # None
  /\ entry.message.begin_order
  /\ Len(emitted) = 1
  /\ emitted[1].end_line = entry.line_number
  /\ emitted[1].entry_count > 0
  /\ current # None
  /\ current.start_line = entry.line_number

(***************************************************************************)
(* C5: a Reset_Clear END entry closes and emits the open transaction if    *)
(* and only if the transaction's response_code is set when the marker is   *)
(* evaluated; with response_code unset the transaction stays open and      *)
(* nothing is emitted.                                                     *)
(***************************************************************************)
ResetClearEndStep ==
  ( /\ InTxn
    /\ entry'.message.reset_clear_end
    /\ ~ entry'.message.end_order )
  => /\ Emits => /\ After.response_code # ""
                 /\ current' = None
                 /\ state' = IDLE
                 /\ After.end_line = entry'.line_number
                 /\ After.end_time = entry'.timestamp
     /\ ~ Emits => /\ emitted' = emitted
                   /\ current' # None
                   /\ current'.response_code = ""
     /\ current.response_code # "" => Emits
     /\ ( /\ current.response_code = ""
          /\ entry'.message.response_code = ""
          /\ entry'.message.se_recv = <<>> ) => ~ Emits

C5_ResetClearEndNeedsResponse == [][ResetClearEndStep]_vars

C5_Witness ==
  /\ entry # None
  /\ entry.message.reset_clear_end
  /\ current = None
  /\ Len(emitted) = 1
  /\ emitted[1].end_line = entry.line_number
  /\ emitted[1].response_code = "DD"

(***************************************************************************)
(* C6: when the stream ends while a transaction is open, process_entries   *)
(* emits it exactly once, with end line/time of the last entry of the      *)
(* stream, and leaves the segmenter idle with no transaction in flight.    *)
(***************************************************************************)
EndOfStreamStep ==
  (pc = "reading" /\ pc' = "done") =>
     /\ current' = None
     /\ state' = IDLE
     /\ IF current # None
        THEN emitted' = Append(emitted,
                          [current EXCEPT !.end_line = entry.line_number,
                                          !.end_time = entry.timestamp])
        ELSE emitted' = emitted

C6_EndOfStreamFlush == [][EndOfStreamStep]_vars

C6_Witness ==
  /\ pc = "done"
  /\ entry # None
  /\ entry.message = MsgSendAckFail
  /\ Len(emitted) = 1
  /\ emitted[1].end_line = entry.line_number
  /\ emitted[1].start_line < entry.line_number - 1

(***************************************************************************)
(* C7: the soft start applies only while idle: a TenderTypePOS marker on a *)
(* DLL-EX entry starts a transaction when none is open; while one is open  *)
(* (also after SE_SEND or SE_RECV) it neither starts a new one nor closes  *)
(* or emits the current one; on another category it never starts one.      *)
(***************************************************************************)
IdleIffNoTransaction == (state = IDLE) <=> (current = None)

TenderTypeSetStep ==
  ( /\ Fed
    /\ entry'.message.tender_type_set
    /\ ~ entry'.message.begin_order
    /\ ~ entry'.message.end_order
    /\ ~ entry'.message.reset_clear_end )
  => /\ emitted' = emitted
     /\ IF current # None
        THEN /\ current' # None
             /\ current'.start_line = current.start_line
             /\ current'.start_time = current.start_time
             /\ state' = state
        ELSE IF entry'.category = "DLL-EX"
        THEN /\ current' # None
             /\ current'.start_line = entry'.line_number
             /\ current'.start_time = entry'.timestamp
             /\ state' = IN_PROGRESS
        ELSE /\ current' = None
             /\ state' = IDLE

C7_SoftStartOnlyWhileIdle == [] IdleIffNoTransaction /\ [][TenderTypeSetStep]_vars

C7_Witness ==
  /\ entry # None
  /\ entry.message.tender_type_set
  /\ entry.category = "DLL-EX"
  /\ state = COMPLETING
  /\ current # None
  /\ current.start_line < entry.line_number
  /\ emitted = <<>>

(***************************************************************************)
(* C8: on an SVREPS SE_RECV entry inside a transaction, host_latency_ms    *)
(* becomes the embedded elapsed seconds times 1000, host code 00 sets      *)
(* response_code to AA, codes 05, 14 and 51 set it to DD, and any other    *)
(* code leaves response_code exactly as it was.                            *)
(***************************************************************************)
SeRecvStep ==
  ( /\ InTxn
    /\ entry'.category = "SVREPS"
    /\ entry'.message.se_recv # <<>> )
  => LET code == entry'.message.recv_response_code_host
         secs == entry'.message.se_recv
     IN  /\ After.host_latency_ms = 1000 * secs[1] + secs[2]
         /\ After.se_recv_time = entry'.timestamp
         /\ code = "00" => After.response_code = "AA"
         /\ code \in {"05", "14", "51"} => After.response_code = "DD"
         /\ code \notin {"00", "05", "14", "51"} =>
               After.response_code = current.response_code

C8_SeRecvLatencyAndHostCode == [][SeRecvStep]_vars

C8_Witness ==
  /\ entry # None
  /\ entry.category = "SVREPS"
  /\ entry.message.recv_response_code_host = "91"
  /\ current # None
  /\ current.response_code = "DN"
  /\ current.host_latency_ms = 5

(***************************************************************************)
(* C9 (as stated): a SendMsgWaitAck3Tries-failed entry seen while a        *)
(* transaction is in progress increases serial_error_count by exactly one  *)
(* and changes nothing else: state, open/closed status and every other     *)
(* field of the transaction are unchanged, and nothing is emitted.         *)
(***************************************************************************)
C9_SerialErrorOnlyCounter ==
  [][ (InTxn /\ entry'.message = MsgSendAckFail) =>
        /\ current' = [current EXCEPT !.serial_error_count = @ + 1]
        /\ state' = state
        /\ emitted' = emitted ]_vars

(***************************************************************************)
(* C9 (amended): a SendMsgWaitAck3Tries-failed entry seen while a          *)
(* transaction is in progress increases serial_error_count by exactly one  *)
(* and, apart from entry_count (which every entry scanned in a transaction *)
(* increases by one), changes nothing else: state, open/closed status and  *)
(* every other field are unchanged and nothing is emitted; the emitted     *)
(* count equals the number of such entries between start and end.          *)
(***************************************************************************)
SerialErrorStep ==
  (InTxn /\ entry'.message = MsgSendAckFail) =>
     /\ current' = [current EXCEPT !.serial_error_count = @ + 1,
                                   !.entry_count = @ + 1]
     /\ state' = state
     /\ emitted' = emitted

SerialErrorsCounted ==
  /\ current # None => current.serial_error_count = ackSeen
  /\ (Emits /\ ~ (Fed /\ entry'.message.send_ack_fail)) =>
        emitted'[Len(emitted')].serial_error_count = ackSeen

C9_SerialErrorCounterAndEntryCount ==
  [][SerialErrorStep /\ SerialErrorsCounted]_vars

C9_Witness ==
  /\ entry # None
  /\ entry.message = MsgEndOrder
  /\ Len(emitted) = 1
  /\ emitted[1].serial_error_count = 2
  /\ emitted[1].entry_count = 3
  /\ ackSeen = 2

(***************************************************************************)
(* C10: no transaction, open or emitted, ever has cvm_result equal to the  *)
(* pre-PIN placeholder 3F0000: a CVMR line or an SE_SEND 9F34 field        *)
(* carrying it is rejected and leaves the cvm_result held so far           *)
(* unchanged, for any order of CVM observations.                           *)
(***************************************************************************)
NoPlaceholderCvm ==
  /\ \A i \in 1..Len(emitted) : emitted[i].cvm_result # "3F0000"
  /\ current # None => current.cvm_result # "3F0000"

PlaceholderCvmStep ==
  ( /\ InTxn
    /\ entry'.message.cvm_result \in {"", "3F0000"}
    /\ entry'.message.send_cvm_field \in {"", "3F0000"}
    /\ "3F0000" \in {entry'.message.cvm_result, entry'.message.send_cvm_field} )
  => After.cvm_result = current.cvm_result

C10_PlaceholderCvmRejected == [] NoPlaceholderCvm /\ [][PlaceholderCvmStep]_vars

C10_Witness ==
  /\ entry # None
  /\ entry.message = MsgSeSendCreditPrePin
  /\ entry.category = "SVREPS"
  /\ current # None
  /\ current.sequence_number = "9300"
  /\ current.cvm_result = "420300"

(***************************************************************************)
(* Part 2: RepeatExpander -- actions                                       *)
(***************************************************************************)
\* process, lines 46-47: a LogEntry goes into the buffer and is passed on.
ExpandEntry ==
  /\ xread < MaxItems
  /\ LET e == ParsedEntry(xread + 1) IN
       /\ item' = e
       /\ buffer' = DequeAppend(buffer, e)
       /\ yielded' = <<e>>
       /\ lastOut' = e
       /\ originals' = Append(originals, e)
  /\ xread' = xread + 1
  /\ ndir' = ndir
  /\ UNCHANGED notExpVars

\* process, lines 27-45: a RepeatDirective replays buffered lines.
ExpandDirective ==
  /\ xread < MaxItems
  /\ ndir < MaxDirectives
  /\ \E d \in Directives(xread + 1) :
       LET source_lines == SourceLines(buffer, d.line_count)
           batch == IF Len(source_lines) = 0 THEN <<>>
                    ELSE Replay(source_lines, d.repeat_count)
       IN  /\ item' = d
           /\ yielded' = batch
           /\ lastOut' = LastYielded(lastOut, batch)
  /\ xread' = xread + 1
  /\ ndir' = ndir + 1
  /\ UNCHANGED <<buffer, originals>>
  /\ UNCHANGED notExpVars

NextExpander == ExpandEntry \/ ExpandDirective

SpecExpander == Init /\ [][NextExpander]_vars

\* The step consumed a directive (it is item').
DirectiveStep == xread' = xread + 1 /\ IsDirective(item')

(***************************************************************************)
(* C11: a directive with line_count = N >= 1 and repeat_count = M, met     *)
(* with at least N buffered entries, yields exactly N x M entries: the     *)
(* last N buffered entries in their order, that block M times, each copy   *)
(* with is_expanded = true, expansion_count = M and the line_number,       *)
(* timestamp, category and message of its source entry.                    *)
(***************************************************************************)
ReplayStep ==
  (DirectiveStep /\ item'.line_count >= 1 /\ Len(buffer) >= item'.line_count)
  => LET N == item'.line_count
         M == item'.repeat_count
     IN  /\ Len(yielded') = N * M
         /\ \A i \in 1..(N * M) :
              LET src == buffer[Len(buffer) - N + ((i - 1) % N) + 1] IN
              /\ yielded'[i].is_expanded = TRUE
              /\ yielded'[i].expansion_count = M
              /\ yielded'[i].line_number = src.line_number
              /\ yielded'[i].timestamp = src.timestamp
              /\ yielded'[i].category = src.category
              /\ yielded'[i].message = src.message

C11_ReplayCardinality == [][ReplayStep]_vars

\* A two-line directive replayed twice out of a longer buffer.
C11_Witness ==
  /\ IsDirective(item)
  /\ item.line_count = 2
  /\ item.repeat_count = 2
  /\ Len(buffer) >= 3
  /\ Len(yielded) = 4

(***************************************************************************)
(* C12: a directive that asks for more entries than the buffer holds       *)
(* (also above the capacity of 20, also with an empty buffer) is dropped:  *)
(* it yields no entries and leaves the buffer unchanged.                   *)
(***************************************************************************)
InsufficientStep ==
  (DirectiveStep /\ item'.line_count > Len(buffer))
  => (yielded' = <<>> /\ buffer' = buffer)

C12_InsufficientDropped == [][InsufficientStep]_vars

(***************************************************************************)
(* C13: expanded copies never enter the buffer: the buffer holds only      *)
(* original (is_expanded = false) entries, at most 20 of them, namely the  *)
(* most recent originals in order, so every entry a directive yields is a  *)
(* copy of an original entry.                                              *)
(***************************************************************************)
C13_OnlyOriginalsBuffered ==
  /\ Len(buffer) <= max_lookback
  /\ \A i \in 1..Len(buffer) : buffer[i].is_expanded = FALSE
  /\ buffer = IF Len(originals) <= max_lookback THEN originals
              ELSE SubSeq(originals, Len(originals) - max_lookback + 1,
                          Len(originals))
  /\ IsDirective(item) =>
       \A i \in 1..Len(yielded) :
          \E j \in 1..Len(originals) :
             /\ originals[j].is_expanded = FALSE
             /\ yielded[i] = [originals[j] EXCEPT
                                !.is_expanded = TRUE,
                                !.expansion_count = item.repeat_count]

\* A directive replays out of a buffer that has already lost its oldest entry.
C13_Witness ==
  /\ Len(originals) > max_lookback
  /\ IsDirective(item)
  /\ Len(yielded) > 0

(***************************************************************************)
(* C14: given parser output in increasing line order, the stream yielded   *)
(* by RepeatExpander.process never yields an entry whose line_number is    *)
(* smaller than that of the entry yielded just before it.                  *)
(***************************************************************************)
\* The entry yielded just before the i-th entry of this step's batch.
NonDecreasingStep ==
  (xread' = xread + 1)
  => \A i \in 1..Len(yielded') :
        LET prev == IF i = 1 THEN lastOut ELSE yielded'[i - 1] IN
        prev # None => yielded'[i].line_number >= prev.line_number

C14_NonDecreasingLines == [][NonDecreasingStep]_vars

\* C14, amended: the line_number steps back only at the first copy of a
\* replayed block, and only when the directive replays two or more entries;
\* originals, copies inside a block and single-entry replays never step back.
StepBackOnlyAtBlockStart ==
  (xread' = xread + 1)
  => \A i \in 1..Len(yielded') :
        LET prev == IF i = 1 THEN lastOut ELSE yielded'[i - 1] IN
        (prev # None /\ yielded'[i].line_number < prev.line_number)
        => /\ IsDirective(item')
           /\ yielded'[i].is_expanded
           /\ LET n == Len(yielded') \div item'.repeat_count IN
                /\ n >= 2
                /\ (i - 1) % n = 0
                /\ yielded'[i].line_number = yielded'[1].line_number

C14_StepBackOnlyAtBlockStart == [][StepBackOnlyAtBlockStart]_vars

\* A two-entry block replayed twice: the second block starts again at the
\* line of the first source entry.
C14_Witness ==
  /\ IsDirective(item)
  /\ Len(yielded) = 4
  /\ yielded[3].line_number < yielded[2].line_number
  /\ yielded[2].line_number >= yielded[1].line_number

(***************************************************************************)
(* Part 3: SCATStateMachine -- actions                                     *)
(***************************************************************************)
\* process_entry, lines 39-62.
ScatProcessEntry(e) ==
  LET msg == e.message IN
  /\ IF msg.state_new # ""
     THEN /\ current_state' = msg.state_new
          /\ state_history' = Append(state_history, SCATStateChange(e))
     ELSE UNCHANGED <<current_state, state_history>>
  /\ IF msg.alive # NoInt /\ AliveChanged(msg.alive, alive_status)
     THEN /\ alive_status' = msg.alive
          /\ alive_history' = Append(alive_history, AliveRecord(e))
     ELSE UNCHANGED <<alive_status, alive_history>>
  /\ scat_entry' = e
  /\ sread' = sread + 1
  \* monitor: progress through the alive values of the scenario
  /\ sscen' = IF sscen >= 0 /\ sscen < Len(AliveScenario) /\ sread = sscen
                 /\ msg = MsgAlive(AliveScenario[sscen + 1])
              THEN sscen + 1 ELSE -1
  /\ dead_periods' = NotCalled
  /\ UNCHANGED notScatVars

\* The caller feeds the next entry of the stream.
ScatFeed ==
  /\ sread < MaxScatEntries
  /\ \E m \in ScatLines :
        ScatProcessEntry(LogEntry(sread + 1, TimeOf(sread + 1), "DLL-EX", m))

\* The caller asks for the dead periods.
GetDeadPeriods ==
  /\ ~ dead_periods.called
  /\ dead_periods' = Returned(DeadPeriods(alive_history))
  /\ UNCHANGED <<current_state, alive_status, state_history, alive_history,
                 scat_entry, sread, sscen>>
  /\ UNCHANGED notScatVars

NextScat == ScatFeed \/ GetDeadPeriods

SpecScat == Init /\ [][NextScat]_vars

\* The timestamp and status of each alive-history record.
AliveTransitions ==
  [ i \in 1..Len(alive_history) |-> <<alive_history[i][1], alive_history[i][2]>> ]

(***************************************************************************)
(* C15: feeding a fresh tracker the alive values 3, 3, 0, 0, 3 records     *)
(* exactly 2 transitions: (time of the first 0, 0) and (time of the first  *)
(* 3 after it, 3).                                                         *)
(***************************************************************************)
C15_DedupTwoTransitions ==
  sscen = Len(AliveScenario)
  => AliveTransitions = << <<TimeOf(3), 0>>, <<TimeOf(5), 3>> >>

\* C15, amended: the same input records exactly 3 transitions: (time of
\* the first 3, 3), (time of the first 0, 0) and (time of the first 3 after
\* it, 3); the second 3 and the second 0 record nothing.
C15_DedupThreeTransitions ==
  sscen = Len(AliveScenario)
  => AliveTransitions =
       << <<TimeOf(1), 3>>, <<TimeOf(3), 0>>, <<TimeOf(5), 3>> >>

\* The five alive values have been fed to a fresh tracker.
C15_Witness == sscen = Len(AliveScenario) /\ sread = 5

(***************************************************************************)
(* C16: the alive history is run-compressed and independent of the         *)
(* named-state history: no two adjacent alive records carry the same       *)
(* status, an alive marker equal to the current status appends nothing, a  *)
(* named-state marker is always appended to the state history even when it *)
(* repeats the previous one, and neither marker changes the other history. *)
(***************************************************************************)
RunCompressed ==
  \A i \in 1..(Len(alive_history) - 1) :
     alive_history[i][2] # alive_history[i + 1][2]

MarkerStep ==
  (sread' = sread + 1)
  => LET msg == scat_entry'.message IN
     /\ (msg.alive # NoInt /\ msg.alive = alive_status)
        => UNCHANGED <<alive_history, alive_status>>
     /\ (msg.alive # NoInt /\ msg.alive # alive_status)
        => /\ alive_status' = msg.alive
           /\ alive_history' =
                Append(alive_history,
                       <<scat_entry'.timestamp, msg.alive, msg.alive_name>>)
     /\ msg.alive = NoInt => UNCHANGED <<alive_history, alive_status>>
     /\ msg.state_new # ""
        => /\ current_state' = msg.state_new
           /\ Len(state_history') = Len(state_history) + 1
           /\ state_history'[Len(state_history')].timestamp = scat_entry'.timestamp
           /\ state_history'[Len(state_history')].new_state = msg.state_new
           /\ state_history'[Len(state_history')].old_state = msg.state_old
           /\ SubSeq(state_history', 1, Len(state_history)) = state_history
     /\ msg.state_new = "" => UNCHANGED <<state_history, current_state>>

C16_RunCompressedIndependent == []RunCompressed /\ [][MarkerStep]_vars

\* A named state has been recorded twice in a row, and the last entry was an
\* alive marker repeating the current status, which recorded nothing.
C16_Witness ==
  /\ Len(state_history) >= 2
  /\ state_history[1].new_state = state_history[2].new_state
  /\ Len(alive_history) >= 1
  /\ scat_entry # None
  /\ scat_entry.message.alive = alive_status
  /\ alive_history[Len(alive_history)][1] # scat_entry.timestamp

(***************************************************************************)
(* C17: get_dead_periods returns one period for every maximal dead run of  *)
(* the alive history: it starts at the timestamp of a transition to status *)
(* 0, ends at the timestamp of the next transition to a non-zero status,   *)
(* and its duration is their difference in seconds; if the history ends    *)
(* while the status is still 0, one final period is reported whose end is  *)
(* the last known timestamp.                                               *)
(***************************************************************************)
\* The records that start a maximal dead run.
DeadRunStarts ==
  { i \in 1..Len(alive_history) :
      /\ alive_history[i][2] = 0
      /\ (i = 1 \/ alive_history[i - 1][2] # 0) }

\* The period the claim describes for the dead run starting at record i.
PeriodOfRun(i) ==
  LET later == { j \in (i + 1)..Len(alive_history) : alive_history[j][2] # 0 }
      start == alive_history[i][1]
      end == IF later = {}
             THEN alive_history[Len(alive_history)][1]
             ELSE alive_history[CHOOSE j \in later : \A k \in later : j <= k][1]
  IN  <<start, end, end - start>>

C17_DeadPeriodPerRun ==
  dead_periods.called
  => /\ Len(dead_periods.periods) = Cardinality(DeadRunStarts)
     /\ \A i \in DeadRunStarts :
          dead_periods.periods[Cardinality({ j \in DeadRunStarts : j <= i })]
            = PeriodOfRun(i)

\* Two dead runs, the second one still open when the periods are asked for.
C17_Witness ==
  /\ dead_periods.called
  /\ Len(dead_periods.periods) = 2
  /\ alive_status = 0
  /\ dead_periods.periods[1][3] # 0

(***************************************************************************)
(* Part 4: ErrorCascadeDetector -- actions                                 *)
(***************************************************************************)
\* One iteration of the loop of process_entries, lines 31-93, with the
\* cascade it yields appended to cascades.
CascadeProcessEntry(e) ==
  /\ cpc = "reading"
  /\ cascade_entry' = e
  /\ cread' = cread + 1
  /\ cpc' = cpc
  /\ IF is_error(e.message)
     THEN /\ IF cascade_current = None
             THEN /\ cascade_current' = NewCascade(e)
                  /\ cascades' = cascades
             ELSE IF last_error_time # NoTime
                     /\ WithinGap(e.timestamp - last_error_time)
             THEN /\ cascade_current' = ContinueCascade(cascade_current, e)
                  /\ cascades' = cascades
             ELSE /\ cascades' = Append(cascades, Finalize(cascade_current))
                  /\ cascade_current' = NewCascadeAfterSplit(e)
          /\ last_error_time' = e.timestamp
     ELSE IF /\ cascade_current # None
             /\ last_error_time # NoTime
             /\ BeyondGap(e.timestamp - last_error_time)
          THEN /\ cascades' =
                    Append(cascades, Recovered(Finalize(cascade_current), e))
               /\ cascade_current' = None
               /\ last_error_time' = NoTime
          ELSE UNCHANGED <<cascade_current, last_error_time, cascades>>
  \* monitor: progress through the splitting scenario
  /\ cscen' = IF cscen >= 0 /\ cscen < Len(CascadeScenario) /\ cread = cscen
                 /\ e.message = MsgErrorA
                 /\ e.timestamp = CascadeBase + CascadeScenario[cscen + 1]
              THEN cscen + 1 ELSE -1
  \* monitor: the error-like entries consumed so far
  /\ cerrors' = IF is_error(e.message) THEN cerrors + 1 ELSE cerrors
  /\ UNCHANGED notCascadeVars

\* The detector pulls the next entry of the stream.
CascadeFeed ==
  /\ cread < MaxCascadeEntries
  /\ \E m \in CascadeLines :
       \E ts \in IF cascade_entry = None THEN {CascadeBase}
                 ELSE { cascade_entry.timestamp + d : d \in CascadeDeltas } :
          CascadeProcessEntry(LogEntry(cread + 1, ts, "SERIAL", m))

\* process_entries, lines 95-98: the stream is exhausted.
CascadeFlush ==
  /\ cpc = "reading"
  /\ cpc' = "done"
  /\ IF cascade_current # None
     THEN cascades' = Append(cascades, Finalize(cascade_current))
     ELSE cascades' = cascades
  /\ UNCHANGED <<cascade_current, last_error_time, cascade_entry, cread, cscen,
                 cerrors>>
  /\ UNCHANGED notCascadeVars

NextCascade == CascadeFeed \/ CascadeFlush

SpecCascade == Init /\ [][NextCascade]_vars

\* The timestamp of the last error-like line of an open cascade, read off
\* the cascade record.
PrevErrorTime(c) == IF c.end_time # NoTime THEN c.end_time ELSE c.start_time

(***************************************************************************)
(* C18: an error-like line extends the open cascade (error_count + 1, end  *)
(* line/time updated) exactly when its timestamp is at most max_gap        *)
(* seconds (5.0, inclusive) after the previous error-like line, measured   *)
(* from that line and not from the cascade start; otherwise the open       *)
(* cascade is closed and emitted and a new cascade with error_count 1 is   *)
(* opened. Error lines at offsets 0, 1, 20, 21 seconds give exactly 2      *)
(* cascades of size 2 each.                                                *)
(***************************************************************************)
ErrorLineStep ==
  (cread' = cread + 1 /\ is_error(cascade_entry'.message)
     /\ cascade_current # None)
  => LET e == cascade_entry'
         prev == PrevErrorTime(cascade_current)
     IN  IF e.timestamp - prev <= MAX_GAP_SECONDS * 1000
         THEN /\ cascades' = cascades
              /\ cascade_current' =
                   [cascade_current EXCEPT
                      !.error_count = cascade_current.error_count + 1,
                      !.end_line = e.line_number,
                      !.end_time = e.timestamp]
         ELSE /\ Len(cascades') = Len(cascades) + 1
              /\ SubSeq(cascades', 1, Len(cascades)) = cascades
              /\ LET c == cascades'[Len(cascades')] IN
                   /\ c.start_line = cascade_current.start_line
                   /\ c.start_time = cascade_current.start_time
                   /\ c.error_count = cascade_current.error_count
                   /\ c.end_time = prev
              /\ cascade_current'.error_count = 1
              /\ cascade_current'.start_line = e.line_number
              /\ cascade_current'.start_time = e.timestamp

SplitScenario ==
  (cscen = Len(CascadeScenario) /\ cpc = "done")
  => /\ Len(cascades) = 2
     /\ cascades[1].error_count = 2
     /\ cascades[2].error_count = 2

C18_ErrorLineExtendsOrSplits == []SplitScenario /\ [][ErrorLineStep]_vars

\* The four error lines of the scenario have been fed and the stream ended.
C18_Witness ==
  /\ cscen = Len(CascadeScenario)
  /\ cpc = "done"
  /\ Len(cascades) = 2
  /\ cascades[2].start_time = CascadeBase + 20000

(***************************************************************************)
(* C19: a non-error-like line closes and emits the open cascade only when  *)
(* it comes strictly more than max_gap seconds after the last error-like   *)
(* line; within the gap it leaves the cascade open and unchanged. The      *)
(* emitted cascade has recovery_achieved = true exactly when the closing   *)
(* line contains 'SCATAliveInt = 3' or 'Ready', and then recovery_time_ms  *)
(* is the time from the cascade's end to the closing line in milliseconds; *)
(* otherwise recovery_achieved is false and recovery_time_ms is null.      *)
(***************************************************************************)
NonErrorLineStep ==
  (cread' = cread + 1 /\ ~ is_error(cascade_entry'.message)
     /\ cascade_current # None)
  => LET e == cascade_entry'
         prev == PrevErrorTime(cascade_current)
     IN  IF e.timestamp - prev > MAX_GAP_SECONDS * 1000
         THEN /\ cascade_current' = None
              /\ Len(cascades') = Len(cascades) + 1
              /\ SubSeq(cascades', 1, Len(cascades)) = cascades
              /\ LET c == cascades'[Len(cascades')] IN
                   /\ c.start_line = cascade_current.start_line
                   /\ c.start_time = cascade_current.start_time
                   /\ c.error_count = cascade_current.error_count
                   /\ c.end_time = prev
                   /\ c.recovery_achieved = (e.message.alive3 \/ e.message.ready)
                   /\ c.recovery_time_ms =
                        IF c.recovery_achieved THEN e.timestamp - c.end_time
                        ELSE NoMs
         ELSE UNCHANGED <<cascade_current, cascades>>

C19_NonErrorLineCloses == [][NonErrorLineStep]_vars

\* A cascade of two errors closed by a 'Ready' line 5.001 s after its end.
C19_Witness ==
  /\ cascade_entry # None
  /\ cascade_entry.message = MsgReady
  /\ cascade_current = None
  /\ Len(cascades) = 1
  /\ cascades[1].error_count = 2
  /\ cascades[1].recovery_achieved
  /\ cascades[1].recovery_time_ms = 5001

(***************************************************************************)
(* Part 5: HealthSegmenter -- actions                                      *)
(***************************************************************************)
\* One iteration of the loop of process_entries, lines 51-128, with the
\* records it yields appended to health_checks.
HealthProcessEntry(e) ==
  LET msg == e.message IN
  /\ hpc = "reading"
  /\ health_entry' = e
  /\ hread' = hread + 1
  /\ hpc' = hpc
  /\ IF e.category # "SVREPS"
     THEN UNCHANGED <<health_current, health_checks>>
     ELSE IF msg.send_host # ""
     THEN \* lines 57-67
          /\ health_checks' = IF health_current # None
                              THEN Append(health_checks, health_current)
                              ELSE health_checks
          /\ health_current' = ExchangeInfoStart(e)
     ELSE IF msg.result_code # "" /\ health_current # None
             /\ health_current.check_type = "ExchangeInfo"
     THEN \* lines 70-92
          /\ health_checks' =
               Append(health_checks, ExchangeInfoResult(health_current, e))
          /\ health_current' = None
     ELSE IF msg.mon_code # ""
     THEN \* lines 95-114
          /\ health_checks' = Append(health_checks, MonitoringRecord(e))
          /\ health_current' = health_current
     ELSE IF msg.login # ""
     THEN \* lines 117-128
          /\ health_checks' = Append(health_checks, LoginRecord(e))
          /\ health_current' = health_current
     ELSE UNCHANGED <<health_current, health_checks>>
  /\ UNCHANGED notHealthVars

\* The segmenter pulls the next entry of the stream.
HealthFeed ==
  /\ hread < MaxHealthEntries
  /\ \E l \in HealthLines :
        HealthProcessEntry(LogEntry(hread + 1, TimeOf(hread + 1), l[1], l[2]))

\* process_entries, lines 130-132: the stream is exhausted.
HealthFlush ==
  /\ hpc = "reading"
  /\ hpc' = "done"
  /\ health_checks' = IF health_current # None
                      THEN Append(health_checks, health_current)
                      ELSE health_checks
  /\ UNCHANGED <<health_current, health_entry, hread>>
  /\ UNCHANGED notHealthVars

NextHealth == HealthFeed \/ HealthFlush

SpecHealth == Init /\ [][NextHealth]_vars

(***************************************************************************)
(* C20: an unresolved ExchangeInfo record is never emitted: a second start *)
(* marker before a result discards the open record, a record still open at *)
(* the end of the stream is discarded, and every emitted ExchangeInfo      *)
(* record was closed by a result marker and has an end line/time and an    *)
(* error code.                                                             *)
(***************************************************************************)
C20_UnresolvedNeverEmitted ==
  \A i \in 1..Len(health_checks) :
     health_checks[i].check_type = "ExchangeInfo"
     => /\ health_checks[i].end_time # NoTime
        /\ health_checks[i].end_line # 0
        /\ health_checks[i].error_code # ""

(***************************************************************************)
(* C21: a MonitoringStatus or Login result marker on an SVREPS entry emits *)
(* exactly one record, with start and end both equal to that entry, and    *)
(* leaves an open ExchangeInfo record untouched, so that a later           *)
(* ExchangeInfo result marker still closes it; entries of any category     *)
(* other than SVREPS emit nothing and change no state.                     *)
(***************************************************************************)
AtomicResultStep ==
  (hread' = hread + 1)
  => LET e == health_entry'
         msg == health_entry'.message
     IN  /\ e.category # "SVREPS"
            => UNCHANGED <<health_current, health_checks>>
         /\ (e.category = "SVREPS" /\ (msg.mon_code # "" \/ msg.login # "")
               /\ msg.send_host = "" /\ msg.result_code = "")
            => /\ health_current' = health_current
               /\ Len(health_checks') = Len(health_checks) + 1
               /\ SubSeq(health_checks', 1, Len(health_checks)) = health_checks
               /\ LET hc == health_checks'[Len(health_checks')] IN
                    /\ hc.check_type = IF msg.mon_code # ""
                                       THEN "MonitoringStatus" ELSE "Login"
                    /\ hc.start_line = e.line_number
                    /\ hc.end_line = e.line_number
                    /\ hc.start_time = e.timestamp
                    /\ hc.end_time = e.timestamp

\* An ExchangeInfo record emitted after a MonitoringStatus or Login record
\* was opened before it and closed by a result marker.
ClosedAcrossAtomic ==
  \A i \in 1..Len(health_checks) : \A j \in 1..Len(health_checks) :
     (i < j /\ health_checks[i].check_type # "ExchangeInfo"
        /\ health_checks[j].check_type = "ExchangeInfo"
        /\ health_checks[j].start_line < health_checks[i].start_line
        /\ health_checks[j].end_line > health_checks[i].end_line)
     => /\ health_checks[j].error_code # ""
        /\ health_checks[j].latency_ms =
             health_checks[j].end_time - health_checks[j].start_time

C21_AtomicResultsAndCategory == []ClosedAcrossAtomic /\ [][AtomicResultStep]_vars

\* Start marker, MonitoringStatus result, ExchangeInfo result: the record
\* opened at line 1 is closed at line 3, after the atomic record of line 2.
C21_Witness ==
  /\ Len(health_checks) = 2
  /\ health_checks[1].check_type = "MonitoringStatus"
  /\ health_checks[1].start_line = 2
  /\ health_checks[2].check_type = "ExchangeInfo"
  /\ health_checks[2].start_line = 1
  /\ health_checks[2].end_line = 3
  /\ health_current = None

(***************************************************************************)
(* Part 6: the steps of ingestion and analysis                             *)
(***************************************************************************)

\* SCATTracker appends a transition to alive_history: the status differs
\* from the one before.
RecordAlive(status, delta) ==
  /\ rpc = "segmenting"
  /\ Len(alive_entries) < MaxAliveEntries
  /\ alive_entries # <<>> =>
       alive_entries[Len(alive_entries)].alive_status # status
  /\ alive_entries' = Append(alive_entries,
       [timestamp |-> IF alive_entries = <<>> THEN delta
                      ELSE alive_entries[Len(alive_entries)].timestamp + delta,
        alive_status |-> status])
  /\ UNCHANGED <<scat_timeline, window, issues, rpc, error_cascades,
                 log_entries, transactions, approved_run, health_rows>>
  /\ UNCHANGED notRuleVars

\* scat_repo.insert_batch(file_id, alive_history pairs) of the ingest step.
InsertBatch ==
  /\ rpc = "segmenting"
  /\ scat_timeline' = insert_batch(alive_entries)
  /\ rpc' = "ingested"
  /\ UNCHANGED <<alive_entries, window, issues, error_cascades, log_entries,
                 transactions, approved_run, health_rows>>
  /\ UNCHANGED notRuleVars

\* analyze_file(file_id, window_start, window_end) on the ingested file.
Analyze ==
  /\ rpc = "ingested"
  /\ \E w \in Windows :
       \E p2p_rows \in P2PQuery(w[1], w[2]),
          slow \in LatencyQuery(w[1], w[2]),
          cascade_rows \in CascadeQuery(w[1], w[2]) :
          /\ window' = w
          /\ issues' = analyze_file(w[1], w[2], p2p_rows, slow, cascade_rows)
  /\ rpc' = "analyzed"
  /\ UNCHANGED <<alive_entries, scat_timeline, error_cascades, log_entries,
                 transactions, approved_run, health_rows>>
  /\ UNCHANGED notRuleVars

\* The ingest step stores one error cascade as an event (start_time,
\* end_time) with its error_cascades row.
InsertCascade(start, length, count, pattern, recovered) ==
  /\ rpc = "segmenting"
  /\ Cardinality(error_cascades) < MaxCascadeRows
  /\ \A r \in error_cascades : r.start_time # start
  /\ error_cascades' = error_cascades \cup
       {[start_time |-> start, end_time |-> start + length,
         error_pattern |-> pattern, error_count |-> count,
         recovery_achieved |-> recovered]}
  /\ UNCHANGED <<alive_entries, scat_timeline, window, issues, rpc,
                 log_entries, transactions, approved_run, health_rows>>
  /\ UNCHANGED notRuleVars

\* The ingest step stores one parsed line in log_entries.
InsertLogEntry(message, delta) ==
  /\ rpc = "segmenting"
  /\ Len(log_entries) < MaxLogRows
  /\ log_entries' = Append(log_entries,
       [timestamp |-> IF log_entries = <<>> THEN LogFirst
                      ELSE log_entries[Len(log_entries)].timestamp + delta,
        message |-> message])
  /\ UNCHANGED <<alive_entries, scat_timeline, window, issues, rpc,
                 error_cascades, transactions, approved_run, health_rows>>
  /\ UNCHANGED notRuleVars

\* The ingest step stores one segmented transaction as an event with its
\* transactions row.
InsertTransaction(kind) ==
  /\ rpc = "segmenting"
  /\ Len(transactions) - approved_run < MaxTxnRows
  /\ transactions' = Append(transactions,
       TxnRow(kind, Len(transactions) + 1, NextTxnStart(transactions)))
  /\ UNCHANGED <<alive_entries, scat_timeline, window, issues, rpc,
                 error_cascades, log_entries, approved_run, health_rows>>
  /\ UNCHANGED notRuleVars

\* The same step for each transaction of a file that begins with a run of
\* approved transactions.
InsertApprovedRun ==
  /\ rpc = "segmenting"
  /\ transactions = <<>>
  /\ \E n \in ApprovedRuns :
       /\ transactions' = WithApprovedRun(<<>>, n)
       /\ approved_run' = n
  /\ UNCHANGED <<alive_entries, scat_timeline, window, issues, rpc,
                 error_cascades, log_entries, health_rows>>
  /\ UNCHANGED notRuleVars

\* The ingest step stores one health check as an event with its
\* health_checks row.
InsertHealthCheck(check_type, http_status, success) ==
  /\ rpc = "segmenting"
  /\ Len(health_rows) < MaxHealthRows
  /\ health_rows' = Append(health_rows,
       [start_time |-> HealthFirst + Len(health_rows) * HealthDelta,
        check_type |-> check_type,
        http_status |-> http_status,
        success |-> success])
  /\ UNCHANGED <<alive_entries, scat_timeline, window, issues, rpc,
                 error_cascades, log_entries, transactions, approved_run>>
  /\ UNCHANGED notRuleVars

NextRulesScat ==
  \/ \E status \in AliveStatuses, delta \in AliveDeltas : RecordAlive(status, delta)
  \/ InsertBatch
  \/ Analyze

SpecRulesScat == Init /\ [][NextRulesScat]_vars

NextRulesCascade ==
  \/ \E start \in CascadeStarts, length \in CascadeLengths,
        count \in CascadeCounts, pattern \in CascadePatterns,
        recovered \in BOOLEAN :
        InsertCascade(start, length, count, pattern, recovered)
  \/ InsertBatch
  \/ Analyze

SpecRulesCascade == Init /\ [][NextRulesCascade]_vars

NextRulesLog ==
  \/ \E message \in LogMessages, delta \in LogDeltas : InsertLogEntry(message, delta)
  \/ InsertBatch
  \/ Analyze

SpecRulesLog == Init /\ [][NextRulesLog]_vars

NextRulesDecline ==
  \/ \E kind \in {"approved", "declined", "no_read", "slow_host"} :
        InsertTransaction(kind)
  \/ InsertBatch
  \/ Analyze

SpecRulesDecline == Init /\ [][NextRulesDecline]_vars

NextRulesCardRead ==
  \/ \E kind \in {"approved", "declined", "no_read", "quick_cancel"} :
        InsertTransaction(kind)
  \/ InsertApprovedRun
  \/ InsertBatch
  \/ Analyze

SpecRulesCardRead == Init /\ [][NextRulesCardRead]_vars

\* One file with rows in every table: the steps stored so far.
StoredSteps ==
  Len(alive_entries) + Cardinality(error_cascades) + Len(log_entries)
    + (Len(transactions) - approved_run) + (IF approved_run > 0 THEN 1 ELSE 0)
    + Len(health_rows)

NextRules ==
  \/ /\ StoredSteps < MaxStoredSteps
     /\ \E status \in AliveStatuses, delta \in {60001, 1800000} :
           RecordAlive(status, delta)
  \/ /\ StoredSteps < MaxStoredSteps
     /\ \E start \in CascadeStarts, count \in {3, 8} :
           InsertCascade(start, 40000, count, ACK_FAILED, FALSE)
  \/ /\ StoredSteps < MaxStoredSteps
     /\ \E message \in LogMessages : InsertLogEntry(message, 5000)
  \/ /\ StoredSteps < MaxStoredSteps
     /\ \E kind \in {"declined", "no_read", "slow_host"} : InsertTransaction(kind)
  \/ /\ StoredSteps < MaxStoredSteps
     /\ InsertApprovedRun
  \/ /\ StoredSteps < MaxStoredSteps
     /\ \E http_status \in {"500", "Socket_10061"} :
           InsertHealthCheck("ExchangeInfo", http_status, FALSE)
  \/ InsertBatch
  \/ Analyze

SpecRules == Init /\ [][NextRules]_vars

NextRulesHealth ==
  \/ \E check_type \in CheckTypes, http_status \in HttpStatuses, success \in BOOLEAN :
        InsertHealthCheck(check_type, http_status, success)
  \/ InsertBatch
  \/ Analyze

SpecRulesHealth == Init /\ [][NextRulesHealth]_vars

(***************************************************************************)
(* Claims about the rule engine                                            *)
(***************************************************************************)

\* The rows detector 1 reads, and the dead periods among them: a dead
\* period starts at a row of status 0 that follows no row of status 0, and
\* lasts to the next row of another status, or to the last row when none
\* follows.
TimelineRows == OrderByTimestamp(scat_timeline)

RowDeadStarts ==
  { i \in 1..Len(TimelineRows) :
      /\ TimelineRows[i].alive_status = 0
      /\ i > 1 => TimelineRows[i-1].alive_status # 0 }

RowDeadClosed(i) ==
  \E j \in (i+1)..Len(TimelineRows) : TimelineRows[j].alive_status # 0

RowDeadEnd(i) ==
  IF RowDeadClosed(i)
  THEN TimelineRows[CHOOSE j \in (i+1)..Len(TimelineRows) :
                      /\ TimelineRows[j].alive_status # 0
                      /\ \A k \in (i+1)..(j-1) : TimelineRows[k].alive_status = 0].timestamp
  ELSE TimelineRows[Len(TimelineRows)].timestamp

RowDeadDuration(i) == RowDeadEnd(i) - TimelineRows[i].timestamp

RowDeadInWindow(i) ==
  /\ window[1] # NoTime => RowDeadEnd(i) >= window[1]
  /\ window[2] # NoTime => TimelineRows[i].timestamp <= window[2]

\* The scat_dead issues reported for the dead period starting at row i.
ScatDeadIssuesOf(i) ==
  { k \in 1..Len(issues) :
      /\ issues[k].issue_type = "scat_dead"
      /\ issues[k].time_range[1] = TimelineRows[i].timestamp }

\* min(0.95, 0.5 + duration_sec/3600)
ScatDeadConfidence(duration_ms) ==
  IF 1800000 + duration_ms >= 3420000 THEN <<95, 100>>
  ELSE <<1800000 + duration_ms, 3600000>>

ShortDeadSilent ==
  \A i \in RowDeadStarts :
     RowDeadDuration(i) <= 60000 => ScatDeadIssuesOf(i) = {}

LongDeadReported(i) ==
  /\ Cardinality(ScatDeadIssuesOf(i)) = 1
  /\ \A k \in ScatDeadIssuesOf(i) :
        RatEq(issues[k].confidence, ScatDeadConfidence(RowDeadDuration(i)))

\* C23 as stated: after an analysis, a dead period of 60.0 s or less has no
\* scat_dead issue, and every dead period of more than 60 s that overlaps
\* the window has exactly one, with confidence
\* min(0.95, 0.5 + duration_sec/3600).
C23_EveryLongDeadPeriodByFormula ==
  rpc = "analyzed" =>
    /\ ShortDeadSilent
    /\ \A i \in RowDeadStarts :
          (RowDeadDuration(i) > 60000 /\ RowDeadInWindow(i)) => LongDeadReported(i)

\* C23 amended: after an analysis, a dead period of 60.0 s or less has no
\* scat_dead issue; every dead period of more than 60 s that overlaps the
\* window and is closed by a later non-zero status has exactly one, with
\* confidence min(0.95, 0.5 + duration_sec/3600); one that is still open at
\* the last row has exactly one, with confidence 0.9.
C23_ClosedByFormulaOpenFixed ==
  rpc = "analyzed" =>
    /\ ShortDeadSilent
    /\ \A i \in RowDeadStarts :
          (RowDeadDuration(i) > 60000 /\ RowDeadInWindow(i)) =>
             /\ Cardinality(ScatDeadIssuesOf(i)) = 1
             /\ \A k \in ScatDeadIssuesOf(i) :
                   IF RowDeadClosed(i)
                   THEN RatEq(issues[k].confidence,
                              ScatDeadConfidence(RowDeadDuration(i)))
                   ELSE RatEq(issues[k].confidence, <<9, 10>>)

\* Witness: an analysis of a timeline with a closed dead period of exactly
\* 60.0 s, which is silent, and a closed one of 60.001 s, which is
\* reported.
C23_Witness ==
  /\ rpc = "analyzed"
  /\ \E i, j \in RowDeadStarts :
        /\ RowDeadClosed(i) /\ RowDeadDuration(i) = 60000
        /\ RowDeadClosed(j) /\ RowDeadDuration(j) = 60001
        /\ ScatDeadIssuesOf(i) = {}
        /\ Cardinality(ScatDeadIssuesOf(j)) = 1
  /\ Len(issues) = 1

\* C22 as stated: after an analysis with a window, every error cascade of
\* three or more errors whose interval [start_time, end_time] overlaps the
\* window is reported, one that starts before window_start and ends inside
\* the window included.
C22_OverlappingCascadeEvaluated ==
  (rpc = "analyzed" /\ window # <<NoTime, NoTime>>) =>
    \A r \in error_cascades :
       ( /\ r.error_count >= 3
         /\ window[1] # NoTime => r.end_time >= window[1]
         /\ window[2] # NoTime => r.start_time <= window[2] )
       => \E k \in 1..Len(issues) :
             issues[k].time_range = <<r.start_time, r.end_time>>

\* The ACK-failure lines detector 2 reads after an analysis, and their
\* clusters: a cluster starts at the first line and at every line that
\* comes 10 s or more after the line before it, and runs to the line before
\* the next start.
AckLines == SortByTimestamp(LogSelect(ACK_FAILED, window[1], window[2]))

AckClusterStarts ==
  { i \in 1..Len(AckLines) :
      i > 1 => AckLines[i].timestamp - AckLines[i-1].timestamp >= 10000 }

AckClusterLast(i) ==
  CHOOSE j \in i..Len(AckLines) :
     /\ \A k \in (i+1)..j : k \notin AckClusterStarts
     /\ j < Len(AckLines) => (j + 1) \in AckClusterStarts

AckClusterSize(i) == AckClusterLast(i) - i + 1

SerialIssuesOf(i) ==
  { k \in 1..Len(issues) :
      /\ issues[k].issue_type = "serial_comm_failure"
      /\ issues[k].time_range[1] = AckLines[i].timestamp }

\* C24: after an analysis, every cluster of two or more ACK-failure lines
\* (consecutive gaps strictly below 10 s) has exactly one
\* serial_comm_failure issue, spanning the cluster, with confidence
\* min(0.95, 0.6 + size*0.1); a cluster of one line has none, and there is
\* no other issue of detector 2.
C24_ClustersOfTwoReported ==
  rpc = "analyzed" =>
    /\ \A i \in AckClusterStarts :
          IF AckClusterSize(i) >= 2
          THEN /\ Cardinality(SerialIssuesOf(i)) = 1
               /\ \A k \in SerialIssuesOf(i) :
                     /\ issues[k].time_range[2] = AckLines[AckClusterLast(i)].timestamp
                     /\ RatEq(issues[k].confidence,
                              IF 60 + 10 * AckClusterSize(i) >= 95 THEN <<95, 100>>
                              ELSE <<6 + AckClusterSize(i), 10>>)
          ELSE SerialIssuesOf(i) = {}
    /\ Cardinality({ k \in 1..Len(issues) :
                       issues[k].issue_type = "serial_comm_failure" })
         = Cardinality({ i \in AckClusterStarts : AckClusterSize(i) >= 2 })

\* Witness: an analysis where a gap of exactly 10 s separates a cluster of
\* two lines, which is reported, from a cluster of one line, which is not.
C24_Witness ==
  /\ rpc = "analyzed"
  /\ \E i, j \in AckClusterStarts :
        /\ AckClusterSize(i) = 2
        /\ j = i + 2
        /\ AckLines[j].timestamp - AckLines[j-1].timestamp = 10000
        /\ AckClusterSize(j) = 1
        /\ Cardinality(SerialIssuesOf(i)) = 1
        /\ SerialIssuesOf(j) = {}

\* The transactions detectors 5 and 8 read after an analysis, and the runs
\* of consecutive declines among them.
WindowTxns == TxnSelect(window[1], window[2])

LongestDeclineRun ==
  LET rows == WindowTxns
      lengths == { n \in 0..Len(rows) :
                     \E i \in 1..(Len(rows) - n + 1) :
                        \A k \in i..(i + n - 1) :
                           rows[k].response_code \in {"DD", "DN"} }
  IN  CHOOSE n \in lengths : \A m \in lengths : m <= n

DeclinesInWindow ==
  LET rows == WindowTxns
  IN  Cardinality({ k \in 1..Len(rows) : rows[k].response_code \in {"DD", "DN"} })

DeclineIssues ==
  { k \in 1..Len(issues) : issues[k].issue_type = "repeated_decline" }

\* C25: after an analysis there is one repeated_decline issue, of confidence
\* 0.7, when the longest run of consecutive decline transactions in the
\* window has length 3 or more, and none otherwise; a transaction that is
\* not a decline ends a run.
C25_RepeatedDeclineIffRunOfThree ==
  rpc = "analyzed" =>
    /\ Cardinality(DeclineIssues) = IF LongestDeclineRun >= 3 THEN 1 ELSE 0
    /\ \A k \in DeclineIssues : RatEq(issues[k].confidence, <<7, 10>>)

\* Witness: an analysis of a window with a decline, a transaction that is not
\* a decline, and then a run of exactly three declines, which is reported.
C25_Witness ==
  /\ rpc = "analyzed"
  /\ LongestDeclineRun = 3
  /\ DeclinesInWindow = 4
  /\ Cardinality(DeclineIssues) = 1

\* The true no-reads among the transactions of the window: not approved, no
\* card type, no host latency, and a duration of 15,000 ms or more; their
\* number and the longest run of consecutive ones.
TrueNoReads(rows) ==
  { k \in 1..Len(rows) :
      /\ ~ rows[k].is_approved
      /\ rows[k].card_type = ""
      /\ rows[k].host_latency_ms \in {NoInt, 0}
      /\ rows[k].duration_ms >= 15000 }

QuickCancels(rows) ==
  { k \in 1..Len(rows) :
      /\ ~ rows[k].is_approved
      /\ rows[k].card_type = ""
      /\ rows[k].host_latency_ms \in {NoInt, 0}
      /\ rows[k].duration_ms < 15000 }

LongestBurst(total, no_reads) ==
  LET lengths == { n \in 0..total :
                     \E i \in 1..(total - n + 1) :
                        \A k \in i..(i + n - 1) : k \in no_reads }
  IN  CHOOSE n \in lengths : \A m \in lengths : m <= n

\* What an analysis leaves for detector 8: the number of transactions in
\* the window, of true no-reads and of quick cancels, the longest burst and
\* whether a true no-read lasted exactly 15,000 ms.
CardReadFacts ==
  LET rows == WindowTxns
      no_reads == TrueNoReads(rows)
  IN  [total |-> Len(rows),
       count |-> Cardinality(no_reads),
       quick |-> Cardinality(QuickCancels(rows)),
       burst |-> LongestBurst(Len(rows), no_reads),
       at_limit |-> \E k \in no_reads : rows[k].duration_ms = 15000]

CardReadIssues ==
  { k \in 1..Len(issues) : issues[k].issue_type = "card_read_intermittent" }

OneCardReadIssue(kind, confidence) ==
  /\ Cardinality(CardReadIssues) = 1
  /\ \A k \in CardReadIssues :
        /\ issues[k].evidence.kind = kind
        /\ RatEq(issues[k].confidence, confidence)

\* C26: after an analysis, detector 8 reports nothing for fewer than 5
\* transactions in the window; otherwise one acute issue of confidence
\* min(0.95, 0.7 + burst*0.05) when the longest burst of true no-reads is 3
\* or more or the no-read rate is 30% or more; else one chronic issue of
\* confidence min(0.85, 0.5 + rate/100) when the rate is 15% or more and
\* there are 10 transactions or more; else nothing.
C26_CardReadClassification ==
  rpc = "analyzed" =>
    LET f == CardReadFacts
    IN  IF f.total < 5 THEN CardReadIssues = {}
        ELSE IF f.burst >= 3 \/ f.count * 100 >= 30 * f.total
        THEN OneCardReadIssue("acute",
               IF 70 + 5 * f.burst >= 95 THEN <<95, 100>>
               ELSE <<70 + 5 * f.burst, 100>>)
        ELSE IF f.count * 100 >= 15 * f.total /\ f.total >= 10
        THEN OneCardReadIssue("chronic",
               IF 50 * f.total + 100 * f.count >= 85 * f.total THEN <<85, 100>>
               ELSE <<50 * f.total + 100 * f.count, 100 * f.total>>)
        ELSE CardReadIssues = {}

\* Witness: an analysis of 20 transactions with 3 true no-reads, no three of
\* them consecutive: a rate of exactly 15%, reported as chronic.
C26_Witness ==
  /\ rpc = "analyzed"
  /\ LET f == CardReadFacts
     IN  f.total = 20 /\ f.count = 3 /\ f.burst < 3
  /\ \E k \in CardReadIssues : issues[k].evidence.kind = "chronic"

\* C27: after an analysis that reports a card_read_intermittent issue, the
\* no-reads shorter than 15,000 ms are counted as quick cancels and every
\* other no-read, one of exactly 15,000 ms included, as a true no-read; and
\* with 20 transactions, 5 no-reads, 2 of them shorter than 15,000 ms and the
\* 3 long ones consecutive, the issue is acute with a burst of 3, confidence
\* 0.85 and 2 quick cancels in the evidence.
C27_QuickCancelsExcluded ==
  rpc = "analyzed" =>
    LET f == CardReadFacts
    IN  /\ \A k \in CardReadIssues :
              /\ issues[k].evidence.no_read_count = f.count
              /\ issues[k].evidence.quick_cancels = f.quick
        /\ (f.total = 20 /\ f.count = 3 /\ f.quick = 2 /\ f.burst = 3)
           => /\ Cardinality(CardReadIssues) = 1
              /\ \A k \in CardReadIssues :
                    /\ issues[k].evidence.kind = "acute"
                    /\ issues[k].evidence.burst = 3
                    /\ issues[k].evidence.quick_cancels = 2
                    /\ RatEq(issues[k].confidence, <<85, 100>>)

\* Witness: the analysis of 20 transactions with 2 quick cancels and 3
\* consecutive long no-reads, one of them of exactly 15,000 ms.
C27_Witness ==
  /\ rpc = "analyzed"
  /\ LET f == CardReadFacts
     IN  f.total = 20 /\ f.count = 3 /\ f.quick = 2 /\ f.burst = 3 /\ f.at_limit
  /\ Cardinality(CardReadIssues) = 1

\* The rank each severity fixes (tests/test_ml.py, test_severity_ranks_consistent).
SeverityRank(severity) ==
  CASE severity = "critical" -> 1
    [] severity = "high" -> 2
    [] severity = "medium" -> 3
    [] severity = "low" -> 4
    [] OTHER -> 0

IssueSeverities == { issues[k].severity : k \in 1..Len(issues) }

\* C28: every issue analyze_file returned names an issue type of the
\* catalog and carries that entry's severity, severity_rank, description and
\* resolution_steps; its severity is critical, high, medium or low and its
\* rank the one the severity fixes (1, 2, 3, 4); its confidence lies within
\* [0, 1].
C28_IssuesFollowCatalog ==
  \A k \in 1..Len(issues) :
     /\ issues[k].issue_type \in DOMAIN ISSUE_TYPES
     /\ LET listed == ISSUE_TYPES[issues[k].issue_type]
        IN  /\ issues[k].severity = listed.severity
            /\ issues[k].severity_rank = listed.severity_rank
            /\ issues[k].description = listed.description
            /\ issues[k].resolution_steps = listed.resolution_steps
     /\ issues[k].severity \in {"critical", "high", "medium", "low"}
     /\ issues[k].severity_rank = SeverityRank(issues[k].severity)
     /\ issues[k].confidence[2] > 0
     /\ 0 <= issues[k].confidence[1]
     /\ issues[k].confidence[1] <= issues[k].confidence[2]

\* Witness: an analysis that returned issues of three severities, from the
\* error cascades, the host latency and the declines of one file.
C28_Witness ==
  /\ rpc = "analyzed"
  /\ {"critical", "high", "low"} \subseteq IssueSeverities
  /\ \E k \in 1..Len(issues) : issues[k].issue_type = "repeated_decline"
  /\ \E k \in 1..Len(issues) : issues[k].issue_type = "host_timeout"

(***************************************************************************)
(* Part 7: the steps of the identity scans and of the merge                *)
(***************************************************************************)

\* MetadataExtractor(max_entries) for the two passes of one ingestion.
NewExtractor(n) ==
  /\ ipc = "new"
  /\ max_entries' = n
  /\ ipc' = "reading"
  /\ UNCHANGED <<raw_lines, identity, lines_scanned, identity2, scan_count>>
  /\ UNCHANGED notIdentityVars

\* One raw line of the file: extract_from_file scans it unless
\* lines_scanned has reached max_entries.
ReadLine(line) ==
  /\ ipc = "reading"
  /\ Len(raw_lines) < MaxRawLines
  /\ raw_lines' = Append(raw_lines, line)
  /\ IF lines_scanned >= max_entries
     THEN UNCHANGED <<identity, lines_scanned>>
     ELSE /\ lines_scanned' = lines_scanned + 1
          /\ identity' = match_patterns(line.text, identity)
  /\ UNCHANGED <<max_entries, identity2, scan_count, ipc>>
  /\ UNCHANGED notIdentityVars

\* One iteration of extract over iter(all_entries), after the file has been
\* parsed.
ScanEntry ==
  /\ ipc \in {"reading", "rescanning"}
  /\ scan_count < Len(AllEntries(raw_lines))
  /\ scan_count < max_entries
  /\ scan_count' = scan_count + 1
  /\ identity2' = match_patterns(AllEntries(raw_lines)[scan_count + 1].text, identity2)
  /\ ipc' = "rescanning"
  /\ UNCHANGED <<raw_lines, max_entries, identity, lines_scanned>>
  /\ UNCHANGED notIdentityVars

\* The merge of _ingest_file once extract has returned.
Merge ==
  /\ ipc \in {"reading", "rescanning"}
  /\ scan_count = Len(AllEntries(raw_lines)) \/ scan_count >= max_entries
  /\ identity' = MergeIdentity(identity, identity2)
  /\ ipc' = "merged"
  /\ UNCHANGED <<raw_lines, max_entries, lines_scanned, identity2, scan_count>>
  /\ UNCHANGED notIdentityVars

NextIdentity ==
  \/ \E n \in {SmallMaxEntries, DefaultMaxEntries} : NewExtractor(n)
  \/ \E line \in IdentityLines : ReadLine(line)
  \/ ScanEntry
  \/ Merge

SpecIdentity == Init /\ [][NextIdentity]_vars

(***************************************************************************)
(* Claims about the identity scans and the merge                           *)
(***************************************************************************)

\* The distinct URLs of the texts, in the order they are first seen.
RECURSIVE FirstSeenUrls(_)
FirstSeenUrls(lines) ==
  IF lines = <<>> THEN <<>>
  ELSE LET before == FirstSeenUrls(SubSeq(lines, 1, Len(lines) - 1))
           url == lines[Len(lines)].text.server_url
       IN  IF url = "" \/ \E i \in 1..Len(before) : before[i] = url
           THEN before ELSE Append(before, url)

FirstFour(urls) == SubSeq(urls, 1, Min(4, Len(urls)))

\* The value a configuration key has in the first of the texts that gives it.
FirstSeenConfig(lines, key) ==
  LET i == CHOOSE n \in 1..Len(lines) :
             /\ ConfigCapture(lines[n].text, key) # ""
             /\ \A m \in 1..(n-1) : ConfigCapture(lines[m].text, key) = ""
  IN  IF key = "UIsoio" THEN StripValue(lines[i].text.uisoio)
      ELSE ConfigCapture(lines[i].text, key)

\* The lines the first pass has scanned, the entries the second pass has.
ScannedLines == SubSeq(raw_lines, 1, lines_scanned)
ScannedEntries == SubSeq(AllEntries(raw_lines), 1, scan_count)

ScanState(id, scanned) ==
  /\ Len(id.server_eps_hosts) <= 4
  /\ \A i, j \in 1..Len(id.server_eps_hosts) :
       i # j => id.server_eps_hosts[i] # id.server_eps_hosts[j]
  /\ id.server_eps_hosts = FirstFour(FirstSeenUrls(scanned))
  /\ \A k \in ConfigKeys :
       IF \E n \in 1..Len(scanned) : ConfigCapture(scanned[n].text, k) # ""
       THEN k \in DOMAIN id.config /\ id.config[k] = FirstSeenConfig(scanned, k)
       ELSE k \notin DOMAIN id.config

ScanStep(id, idAfter) ==
  /\ \A f \in ScalarFields : id[f] # "" => idAfter[f] = id[f]
  /\ Len(idAfter.server_eps_hosts) >= Len(id.server_eps_hosts)
  /\ SubSeq(idAfter.server_eps_hosts, 1, Len(id.server_eps_hosts))
       = id.server_eps_hosts
  /\ \A k \in DOMAIN id.config :
       k \in DOMAIN idAfter.config /\ idAfter.config[k] = id.config[k]

C29_Inv ==
  /\ ipc \in {"reading", "rescanning"} =>
       /\ lines_scanned <= max_entries
       /\ lines_scanned = Min(Len(raw_lines), max_entries)
       /\ ScanState(identity, ScannedLines)
  /\ ipc # "new" =>
       /\ scan_count <= max_entries
       /\ ScanState(identity2, ScannedEntries)

C29_Step ==
  ipc' \in {"reading", "rescanning"} =>
    /\ ScanStep(identity, identity')
    /\ ScanStep(identity2, identity2')
    /\ lines_scanned >= max_entries => identity' = identity

\* C29: during an identity scan a scalar field that is set is never changed
\* by a later line or entry; the host list only grows, holds no duplicate,
\* keeps first-seen order and holds at most 4 URLs; a config key keeps its
\* first-seen value; and at most max_entries lines or entries are scanned.
C29_ScanIsWriteOnceAndBounded == []C29_Inv /\ [][C29_Step]_vars

\* Five lines with five distinct URLs were scanned, the list holds the first
\* four, and the company and EndOrderIntervalMsg of the first line survived
\* the different ones of a later line.
C29_Witness ==
  /\ ipc = "reading"
  /\ lines_scanned = 5
  /\ Len(FirstSeenUrls(raw_lines)) = 5
  /\ Len(identity.server_eps_hosts) = 4
  /\ raw_lines[1] = SendLine
  /\ \E n \in 2..5 : raw_lines[n] = ReceiptLine
  /\ identity.company_id = "145714"
  /\ identity.config["EndOrderIntervalMsg"] = "500"

\* C30: in the merge every field that the first pass left blank and the
\* second pass found ends up filled (scalar ids, versions, all pinpad
\* fields, IP address, hosts, config keys), and no field the first pass set
\* is changed.
C30_MergeStep ==
  ipc' = "merged" /\ ipc # "merged" =>
    /\ \A f \in ScalarFields :
         /\ identity[f] # "" => identity'[f] = identity[f]
         /\ identity[f] = "" /\ identity2[f] # "" => identity'[f] = identity2[f]
    /\ identity.server_eps_hosts # <<>> =>
         identity'.server_eps_hosts = identity.server_eps_hosts
    /\ identity.server_eps_hosts = <<>> /\ identity2.server_eps_hosts # <<>> =>
         identity'.server_eps_hosts # <<>>
    /\ \A k \in DOMAIN identity.config :
         k \in DOMAIN identity'.config /\ identity'.config[k] = identity.config[k]
    /\ \A k \in DOMAIN identity2.config : k \in DOMAIN identity'.config

C30_MergeFillsEveryGap == [][C30_MergeStep]_vars

(***************************************************************************)
(* Claims about the pattern label of a cascade                             *)
(***************************************************************************)

\* The line a cascade was opened by, found by its first_error_message.
OpeningLine(c) == CHOOSE m \in CascadeLines : m.text = c.first_error_message

\* The label the line gives: its error text cut to 100 characters, or the
\* failure phrase.
LabelOf(m) ==
  IF m.error_text # "" THEN Truncate100(m.error_text)
  ELSE "ProcessRequest FAILED"

\* C35: every emitted cascade carries the pattern label of its own first
\* error-like line (the error text cut to 100 characters, or 'ProcessRequest
\* FAILED'), whether it was opened from idle or right after a gap split.
C35_EveryCascadeLabelled ==
  \A i \in 1..Len(cascades) :
    cascades[i].error_pattern = LabelOf(OpeningLine(cascades[i]))

(***************************************************************************)
(* Claims about the ExchangeInfo result marker                             *)
(***************************************************************************)

\* C36: an ExchangeInfo result marker closes and emits the open ExchangeInfo
\* record with success exactly when the error code is 0, latency_ms the time
\* from the start marker to the result marker, and http_status the HTTP code
\* of the error string or Socket_<n> (the socket code wins over the HTTP
\* code); met when no ExchangeInfo record is open it emits nothing.
ResultMarkerStep ==
  (/\ hread' = hread + 1
   /\ health_entry'.category = "SVREPS"
   /\ health_entry'.message.result_code # ""
   /\ health_entry'.message.send_host = "")
  => LET e == health_entry'
         msg == health_entry'.message
     IN  IF health_current # None /\ health_current.check_type = "ExchangeInfo"
         THEN /\ health_current' = None
              /\ Len(health_checks') = Len(health_checks) + 1
              /\ SubSeq(health_checks', 1, Len(health_checks)) = health_checks
              /\ LET hc == health_checks'[Len(health_checks')] IN
                   /\ hc.check_type = "ExchangeInfo"
                   /\ hc.start_line = health_current.start_line
                   /\ hc.start_time = health_current.start_time
                   /\ hc.target_host = health_current.target_host
                   /\ hc.end_line = e.line_number
                   /\ hc.end_time = e.timestamp
                   /\ hc.success = (msg.result_code = "0")
                   /\ hc.latency_ms = e.timestamp - health_current.start_time
                   /\ hc.http_status =
                        IF msg.socket # "" THEN "Socket_" \o msg.socket
                        ELSE msg.http
         ELSE UNCHANGED <<health_current, health_checks>>

C36_ResultMarkerClosesOpenRecord == [][ResultMarkerStep]_vars

\* A record opened at line 1 was closed at line 3 by a result marker with
\* error code 7 whose error string holds HTTP 404 and socket error 10061,
\* and a result marker met earlier with no record open emitted nothing.
C36_Witness ==
  /\ hread = 4
  /\ Len(health_checks) = 1
  /\ health_checks[1].start_line = 2
  /\ health_checks[1].end_line = 4
  /\ health_checks[1].http_status = "Socket_10061"
  /\ health_checks[1].success = FALSE
  /\ health_checks[1].latency_ms = TimeOf(4) - TimeOf(2)
  /\ health_current = None

(***************************************************************************)
(* Claims about the conservation of transactions                           *)
(***************************************************************************)

\* The transactions in flight: one or none.
InFlight == IF current = None THEN 0 ELSE 1

\* Every start so far is in flight or has been emitted, once; after the
\* stream has been consumed none is in flight.
StartsConserved ==
  /\ Len(emitted) + InFlight = started
  /\ \A i, j \in 1..Len(emitted) :
       i < j => emitted[i].start_line < emitted[j].start_line
  /\ current # None =>
       \A i \in 1..Len(emitted) : emitted[i].start_line < current.start_line
  /\ pc = "done" => current = None /\ Len(emitted) = started

\* A step emits at most one transaction, and only by EndOrder, by a
\* Reset_Clear END with a response code, by a BeginOrder met with a
\* transaction open, or by the flush; an EndOrder met while idle emits
\* nothing.
EmissionStep ==
  /\ Len(emitted') \in {Len(emitted), Len(emitted) + 1}
  /\ SubSeq(emitted', 1, Len(emitted)) = emitted
  /\ Emits =>
       \/ Fed /\ entry'.message.end_order
       \/ Fed /\ entry'.message.reset_clear_end
              /\ emitted'[Len(emitted')].response_code # ""
       \/ Fed /\ entry'.message.begin_order /\ current # None
       \/ pc = "reading" /\ pc' = "done" /\ current # None
  /\ (Fed /\ entry'.message.end_order /\ state = IDLE
        /\ ~ entry'.message.begin_order /\ ~ entry'.message.tender_type_set)
     => emitted' = emitted /\ current' = None

\* C37: transactions are conserved: the number of emitted transactions
\* equals the number of starts (every BeginOrder and every soft start taken
\* while idle) once the stream has been consumed; each started transaction
\* is emitted exactly once, by EndOrder, by a Reset_Clear END with a response
\* code, by a forced close at the next BeginOrder or by the flush; an
\* EndOrder met while idle emits nothing.
C37_TransactionsConserved == []StartsConserved /\ [][EmissionStep]_vars

\* Four entries gave three starts (a soft start among them) and three
\* transactions: one forced closed, one ended by EndOrder, one flushed.
C37_Witness ==
  /\ pc = "done"
  /\ nread = 4
  /\ started = 3
  /\ Len(emitted) = 3
  /\ emitted[1].start_line = 1 /\ emitted[1].end_line = 2
  /\ emitted[2].start_line = 2 /\ emitted[2].end_line = 3
  /\ emitted[3].start_line = 4 /\ emitted[3].end_line = 4
  /\ entry.message.tender_type_set

(***************************************************************************)
(* Claims about the conservation of error lines                            *)
(***************************************************************************)

RECURSIVE SumErrorCounts(_)
SumErrorCounts(cs) ==
  IF cs = <<>> THEN 0
  ELSE cs[Len(cs)].error_count + SumErrorCounts(SubSeq(cs, 1, Len(cs) - 1))

\* The error lines of the cascade that is open while the stream is read.
OpenErrorCount ==
  IF cascade_current = None THEN 0 ELSE cascade_current.error_count

\* C38: error lines are conserved across cascades: once process_entries has
\* finished, flush included, each cascade has been emitted exactly once,
\* every emitted cascade has error_count >= 1 and an end line/time set, and
\* the error counts of the emitted cascades sum to the number of error-like
\* entries of the stream.
C38_ErrorLinesConserved ==
  /\ cpc = "reading" => SumErrorCounts(cascades) + OpenErrorCount = cerrors
  /\ \A i \in 1..Len(cascades) :
       /\ cascades[i].error_count >= 1
       /\ cascades[i].end_time # NoTime
       /\ cascades[i].end_line >= cascades[i].start_line
  /\ \A i, j \in 1..Len(cascades) :
       i < j => cascades[i].end_line < cascades[j].start_line
  /\ (cpc = "reading" /\ cascade_current # None) =>
       \A i \in 1..Len(cascades) :
         cascades[i].end_line < cascade_current.start_line
  /\ cpc = "done" => SumErrorCounts(cascades) = cerrors

\* Four error lines, the third more than 5 s after the second, gave two
\* cascades of two errors each, the second one emitted by the flush.
C38_Witness ==
  /\ cpc = "done"
  /\ cerrors = 4
  /\ Len(cascades) = 2
  /\ cascades[1].error_count = 2
  /\ cascades[2].error_count = 2
  /\ cascades[2].end_line = 4

(***************************************************************************)
(* Claims about a dead run still open at the end of the file               *)
(***************************************************************************)

\* alive_history as get_dead_periods reads it: (timestamp, status, name).
AliveHistoryOf(entries) ==
  [ i \in 1..Len(entries) |->
      <<entries[i].timestamp, entries[i].alive_status, "">> ]

StillDeadAtEnd ==
  /\ alive_entries # <<>>
  /\ alive_entries[Len(alive_entries)].alive_status = 0

\* get_dead_periods gives the open final run the death transition as its
\* end: end = start, duration 0.
OpenPeriodIsEmpty ==
  StillDeadAtEnd =>
    LET periods == DeadPeriods(AliveHistoryOf(alive_entries))
        death == alive_entries[Len(alive_entries)].timestamp
    IN  /\ periods # <<>>
        /\ periods[Len(periods)] = <<death, death, 0>>

\* The issues of the 'still dead at end of file' branch of detector 1.
StillDeadIssues ==
  { k \in 1..Len(issues) :
      /\ issues[k].issue_type = "scat_dead"
      /\ Len(issues[k].time_range) = 2
      /\ issues[k].time_range[2] = NoTime }

SharedTimestamp ==
  \E i, j \in 1..Len(alive_entries) :
    i # j /\ alive_entries[i].timestamp = alive_entries[j].timestamp

\* C39 as stated: with non-decreasing timestamps the dead run still open at
\* the end of the file has end = start and duration 0 in get_dead_periods,
\* and the 'still dead at end of file' branch of detector 1 never reports it
\* (it reports only durations above 60 s).
C39_OpenRunNeverReported ==
  /\ OpenPeriodIsEmpty
  /\ rpc = "analyzed" => StillDeadIssues = {}

\* C39 amended: get_dead_periods gives the open final run end = start and
\* duration 0; the 'still dead at end of file' branch of detector 1 reports
\* nothing for it unless two recorded transitions share a timestamp.
C39_OpenRunReportedOnlyOnSharedTimestamp ==
  /\ OpenPeriodIsEmpty
  /\ (rpc = "analyzed" /\ ~ SharedTimestamp) => StillDeadIssues = {}

\* Dead at 0 s, alive at 60.001 s, dead again at 1860.001 s and until the
\* end of the file: the closed period is reported, the open one is not.
C39_Witness ==
  /\ rpc = "analyzed"
  /\ Len(alive_entries) = 3
  /\ StillDeadAtEnd
  /\ ~ SharedTimestamp
  /\ alive_entries[2].timestamp - alive_entries[1].timestamp = 60001
  /\ alive_entries[3].timestamp - alive_entries[2].timestamp = 1800000
  /\ window = <<NoTime, NoTime>>
  /\ Len(issues) = 1
  /\ StillDeadIssues = {}

(***************************************************************************)
(* Claims about the size of a replay                                       *)
(***************************************************************************)

\* C40: a repeat directive never yields more than line_count x repeat_count
\* entries, whatever the buffer holds; a directive with line_count = 0 or
\* with repeat_count = 0 yields nothing.
ReplayBoundStep ==
  DirectiveStep =>
    Len(yielded') <= item'.line_count * item'.repeat_count

C40_ReplayBounded == [][ReplayBoundStep]_vars

(***************************************************************************)
(* LogParser: one iteration of the loop of FileReader.parse_lines          *)
(***************************************************************************)
\* file_reader.py, lines 78-81: the next raw line is parsed under its line
\* number and the result is yielded unless it is None; an exception of
\* parse_line ends the generator.
ParseLines(raw) ==
  /\ ppc = "reading"
  /\ plines < MaxParseLines
  /\ LET result == parse_line(raw, plines + 1) IN
       /\ praw' = raw
       /\ presult' = result
       /\ plines' = plines + 1
       /\ ppc' = IF result.outcome = "raised" THEN "raised" ELSE "reading"
       /\ parsed' = IF result.outcome = "returned" /\ result.value # NoneResult
                    THEN Append(parsed, result.value)
                    ELSE parsed
  /\ UNCHANGED notParserVars

NextParser == \E raw \in ParserLines : ParseLines(raw)

SpecParser == Init /\ [][NextParser]_vars

(***************************************************************************)
(* C33: parse_line never fails on input: a line of the standard shape      *)
(* (digit groups of a timestamp, a valid category, a message) whose        *)
(* timestamp is not a real date or time is treated as unrecognized and     *)
(* yields nothing, like a blank or continuation line, and no exception is  *)
(* raised.                                                                 *)
(***************************************************************************)
StandardShape(raw) == LINE_PATTERN(raw)

UnrealTimestamp(raw) == StandardShape(raw) /\ ~StrptimeAccepts(raw.stamp)

C33_UnrealTimestampYieldsNothing ==
  /\ ppc # "raised"
  /\ plines > 0 =>
       /\ presult.outcome = "returned"
       /\ UnrealTimestamp(praw) => presult.value = NoneResult

(***************************************************************************)
(* C34: parse_line returns exactly one of entry, directive or nothing: a   *)
(* line of leading whitespace followed by the repeat marker gives a        *)
(* directive with repeat_count M and line_count N, or 1 when N is absent;  *)
(* a standard line gives an entry whose category is the line's token and   *)
(* whose message is the remainder with only trailing whitespace removed;   *)
(* any other line gives nothing.                                           *)
(***************************************************************************)
MarkerShape(raw) ==
  /\ raw.lead # ""
  /\ raw.stamp = NoStamp
  /\ raw.token = ""
  /\ raw.above # NoAbove
  /\ raw.trail = ""

Remainder(raw) ==
  IF raw.above # NoAbove THEN AboveText(raw.above) ELSE raw.core

ClassifiedAsClaimed(raw, result) ==
  /\ result.outcome = "returned"
  /\ result.value.kind \in {"LogEntry", "RepeatDirective", "None"}
  /\ MarkerShape(raw) =>
       /\ result.value.kind = "RepeatDirective"
       /\ result.value.repeat_count = IntOf(raw.above[2])
       /\ result.value.line_count =
            IF raw.above[1] = "" THEN 1 ELSE IntOf(raw.above[1])
  /\ StandardShape(raw) =>
       /\ result.value.kind = "LogEntry"
       /\ result.value.category = raw.token
       /\ result.value.message =
            IF Remainder(raw) = "" THEN "" ELSE raw.pre \o Remainder(raw)
  /\ (~MarkerShape(raw) /\ ~StandardShape(raw)) => result.value = NoneResult

C34_EveryLineClassified == plines > 0 => ClassifiedAsClaimed(praw, presult)

(***************************************************************************)
(* The liveness timeline of a file whose clock steps back                  *)
(***************************************************************************)
\* The distances between consecutive alive_history entries of a file whose
\* clock is set back between two transitions.
ClockDeltas == {-60001, 60002, 120004}

\* RecordAlive with the timestamp of an entry of such a file (never before
\* the start of the day).
RecordAliveAt(status, delta) ==
  /\ (IF alive_entries = <<>> THEN delta
      ELSE alive_entries[Len(alive_entries)].timestamp + delta) >= 0
  /\ RecordAlive(status, delta)

NextRulesClock ==
  \/ \E status \in AliveStatuses, delta \in ClockDeltas :
        RecordAliveAt(status, delta)
  \/ InsertBatch
  \/ Analyze

SpecRulesClock == Init /\ [][NextRulesClock]_vars

(***************************************************************************)
(* C32: the rule engine tolerates non-monotonic timestamps without         *)
(* reordering: the dead-period detector walks the recorded liveness        *)
(* transitions in the order the tracker produced them, so two transitions  *)
(* whose timestamps are out of order are evaluated in processing order and *)
(* not re-sorted by timestamp.                                             *)
(***************************************************************************)
\* The recorded transitions as rows, in the order they were produced.
ProcessingOrder(entries) ==
  [ i \in 1..Len(entries) |->
      [timestamp |-> entries[i].timestamp,
       alive_status |-> entries[i].alive_status] ]

\* The walk of _check_scat_dead over the given rows.
ScatDeadWalk(rows, window_start, window_end) ==
  LET done == ScatDeadLoop(rows, 1, NoTime, <<>>, window_start, window_end)
      last_ts == rows[Len(rows)].timestamp
  IN  IF rows = <<>> THEN <<>>
      ELSE IF /\ done.dead_start # NoTime
              /\ DeadLongEnough(last_ts - done.dead_start)
              /\ ~ outside_window(done.dead_start, last_ts,
                                  window_start, window_end)
      THEN Append(done.issues, StillDeadIssue(done.dead_start, last_ts))
      ELSE done.issues

C32_WalkedInProcessingOrder ==
  (rpc = "analyzed" /\ ~ SharedTimestamp) =>
     issues = ScatDeadWalk(ProcessingOrder(alive_entries),
                           window[1], window[2])

(***************************************************************************)
(* Two pipeline instances: the steps of either, in any order               *)
(***************************************************************************)
\* Instance i consumes the next parsed item of its file.
PipelineFeed(i) ==
  /\ ~ pipelines[i].exhausted
  /\ Len(files[i]) < MaxPipelineItems
  /\ \E it \in PipelineItems(Len(files[i]) + 1) :
       /\ pipelines' = [pipelines EXCEPT
                          ![i] = PipelineStep(@, BufferOf(pipelines, i), it)]
       /\ files' = [files EXCEPT ![i] = Append(@, it)]
  /\ UNCHANGED notPipelineVars

\* The file of instance i is exhausted.
PipelineEnd(i) ==
  /\ ~ pipelines[i].exhausted
  /\ pipelines' = [pipelines EXCEPT ![i] = PipelineFlush(@)]
  /\ UNCHANGED files
  /\ UNCHANGED notPipelineVars

NextPipelines == \E i \in Instances : PipelineFeed(i) \/ PipelineEnd(i)

SpecPipelines == Init /\ [][NextPipelines]_vars

(***************************************************************************)
(* C31: pipelines of different files share no mutable state: when the      *)
(* steps of two pipeline instances are interleaved in any order, each      *)
(* instance emits exactly the records it emits when run alone on its own   *)
(* input.                                                                  *)
(***************************************************************************)
\* The instance that has consumed the given items with no other instance
\* around.
RECURSIVE RunAlone(_, _)
RunAlone(p, items) ==
  IF items = <<>> THEN p
  ELSE RunAlone(PipelineStep(p, p.buffer, Head(items)), Tail(items))

AloneOn(items, exhausted) ==
  IF exhausted THEN PipelineFlush(RunAlone(NewPipeline, items))
  ELSE RunAlone(NewPipeline, items)

====
